---- MODULE Spec2Model ----
(***************************************************************************)
(* Model of the pair-resolution and extraction pipeline:                   *)
(*   features/resolve_pairs.py  (three-source pair resolver and its cache) *)
(*   features/build_dataset.py  (cache loaders, get_pairs_from_resolve)    *)
(*   features/extract.py        (base and human snapshots of a pair)       *)
(*   features/agent_change.py   (the two agent snapshots of a pair)        *)
(*   extract.py                 (the script that makes all four snapshots) *)
(*   main.py                    (driver sub-commands)                      *)
(*                                                                         *)
(* JSON values: an integer is itself.  In the nodes GitHub answers with,    *)
(* None stands for every value that is not an int.  In the cache files     *)
(* None stands for null and for a missing key, and Str(n) for the JSON     *)
(* string made of the digits of n.  GitHub numbers are >= 1 and the        *)
(* changelog regex only yields numbers >= 0, so None = -1 never collides   *)
(* with a real number, and no number reaches StrBase.                      *)
(*                                                                         *)
(* A text typed at a prompt is the sequence of its Unicode code points.    *)
(***************************************************************************)
EXTENDS Integers, Sequences, FiniteSets, TLC

VARIABLES
    remote,          \* GitHub: merged PR nodes, closed issue nodes, changelog numbers
    resolve_cache,   \* content of <cache>/resolve_cache.json
    pairs_file,      \* content of <cache>/pairs.json
    cache_writer,    \* who wrote resolve_cache.json: "preexisting" or "resolver"
    rpc,             \* position of resolve_pairs.main
    caller,          \* who started resolve_pairs.py: "cli", "resolve", "extract", "all"
    refresh,         \* args.refresh of the current/last resolver invocation
    remote_calls,    \* gh invocations made by the current/last resolver invocation
    src_failed,      \* sources whose fetch failed in the current/last invocation
    pr_nodes,        \* resolve_pairs.main local
    pr_pairs,        \* resolve_pairs.main local
    max_valid_id,    \* resolve_pairs.main local
    issue_nodes,     \* resolve_pairs.main local
    issue_pairs,     \* resolve_pairs.main local
    changelog_nums,  \* resolve_pairs.main local
    all_pairs,       \* resolve_pairs.main local, after the changelog supplement
    merged,          \* resolve_pairs.main local, the final pair set
    extract_cache,   \* content of <cache>/extract_cache.json
    work_dir,        \* whether the working copy <project_root>/flask exists
    branches,        \* branch name -> commit, the refs of the working copy
    head,            \* the branch the working copy is switched to
    dpc,             \* position of main.py
    cmd,             \* args.cmd of the current/last main.py command
    limit,           \* args.limit of the current/last main.py command
    pairs,           \* main.py main local
    idx,             \* main.py main: index of the pair the loop is at
    extract_entries, \* main.py main local
    failed,          \* main.py main local
    exit_status,     \* exit status of the last main.py command
    extract_log,     \* the pairs announced on stdout (line 116), in order
    extract_data,    \* main.py main local: what the last run_extract returned
    entries,         \* main.py main local (build)
    dataset,         \* content of dataset.jsonl
    dataset_before,  \* while build or all writes it: its content before it was opened
    dirty,           \* uncommitted edits in the working copy, by the invocation that made them
    agent_commits,   \* commits made by agent_change.py: id -> [parent, edits]
    attempts,        \* number of agent_change.py runs so far
    agent_h,         \* args.h of the current/last agent_change.py run
    agent_log,       \* the agent invocations of the current/last agent_change.py run
    agent_err,       \* why the current/last agent_change.py run exited non-zero, or ""
    to_apply,        \* main.py main local (apply-cursor)
    to_apply_at,     \* apply-cursor: which entry of loaded_cache each element of to_apply is
    loaded_cache,    \* main.py main local extract_cache (apply-cursor)
    stdin,           \* apply-cursor: whether the prompt was shown and what was typed
    reply,           \* main.py main local (apply-cursor): the answer to the prompt
    agent_failed     \* apply-cursor: the pairs whose agent_change.py run failed

rvars == <<rpc, caller, refresh, remote_calls, src_failed, pr_nodes, pr_pairs,
           max_valid_id, issue_nodes, issue_pairs, changelog_nums, all_pairs, merged>>
fvars == <<resolve_cache, pairs_file, cache_writer>>
gvars == <<work_dir, branches, head>>
dvars == <<dpc, cmd, limit, pairs, idx, extract_entries, failed, exit_status, extract_log,
           extract_data>>
bvars == <<entries, dataset, dataset_before>>
wvars == <<dirty, agent_commits, attempts, agent_h, agent_log, agent_err>>
cvars == <<to_apply, to_apply_at, loaded_cache, stdin, reply, agent_failed>>
avars == <<wvars, cvars>>
vars == <<remote, avars, fvars, rvars, extract_cache, gvars, dvars, bvars>>

(***************************************************************************)
(* Bounds and input domains                                                *)
(***************************************************************************)
MaxPrNodes == 2
MaxEvents == 1

None == -1
NoMaxId == 99999

IsInt(v) == v # None

\* a JSON string of digits, kept apart from the number it spells
StrBase == 100000
Str(n) == StrBase + n

\* str(v) on one side of a command line and int() on the other: a string of
\* digits arrives as the number it spells, as its text in an f-string does
int(v) == IF v >= StrBase THEN v - StrBase ELSE v

PrNumbers == {100, 600}
IssueNumbers == {1, 100}
ChangelogNumbers == {0, 1, 600}

SeqsUpTo(S, n) == UNION {[1..k -> S] : k \in 0..n}

\* a node of repository.pullRequests.nodes; closing is the set of the numbers in
\* closingIssuesReferences.nodes
PrNodeSet ==
    [number : PrNumbers \cup {None},
     closing : (SUBSET IssueNumbers) \cup {{None}}]

\* a closer of a ClosedEvent; a closer that is not a pull request has no number
CloserSet ==
    {[number |-> 100, merged |-> TRUE], [number |-> 600, merged |-> TRUE],
     [number |-> 600, merged |-> FALSE], [number |-> None, merged |-> FALSE]}

\* a node of repository.issues.nodes; events are its timelineItems.nodes
IssueNodeSet ==
    [number : IssueNumbers \cup {None}, events : SeqsUpTo(CloserSet, MaxEvents)]

\* both queries order by CREATED_AT DESC and GitHub numbers grow with creation
\* time: every number occurs once, newest first (a node without number last)
NewestFirst(s) ==
    \A a, b \in 1..Len(s) : a < b => s[a].number > s[b].number

PrNodeSeqs == {s \in SeqsUpTo(PrNodeSet, MaxPrNodes) : NewestFirst(s)}

IssueNodeSeqs == {<<>>} \cup {<<n>> : n \in IssueNodeSet}

(***************************************************************************)
(* Commits of the upstream repository.  A commit identifier is <<h, t>>:   *)
(* h its first 8 characters, t the rest.                                   *)
(***************************************************************************)
NoSha == <<"", 0>>
Root == <<"aaaaaaaa", 0>>
Main1 == <<"bbbbbbbb", 0>>
Feat1 == <<"cccccccc", 0>>
Merge1 == <<"dddddddd", 0>>
Squash1 == <<"eeeeeeee", 0>>
Root2 == <<"aaaaaaaa", 1>>
Squash2 == <<"99999999", 0>>

Commits == {Root, Main1, Feat1, Merge1, Squash1, Root2, Squash2}

\* Merge1 is a true merge of Feat1 into Main1, Squash1 a squash on top of it;
\* Root2 is another commit whose identifier begins with the 8 characters of
\* Root's, and Squash2 a squash on top of it
Parents(c) ==
    IF c = Main1 THEN <<Root>>
    ELSE IF c = Root2 THEN <<Root>>
    ELSE IF c = Squash2 THEN <<Root2>>
    ELSE IF c = Feat1 THEN <<Root>>
    ELSE IF c = Merge1 THEN <<Main1, Feat1>>
    ELSE IF c = Squash1 THEN <<Merge1>>
    ELSE <<>>

PullNumbers == {1, 9, 100, 600}

\* GET repos/{owner}/{repo}/pulls/{n}: not found, or merge_commit_sha (NoSha
\* for a pull request that was never merged)
NotFound == [found |-> FALSE, merge_commit_sha |-> NoSha]
Pull(sha) == [found |-> TRUE, merge_commit_sha |-> sha]

PullsDefault ==
    [n \in PullNumbers |->
        IF n = 100 THEN Pull(Merge1)
        ELSE IF n = 600 THEN Pull(Squash1)
        ELSE IF n = 9 THEN Pull(Merge1)
        ELSE NotFound]

PullsSet ==
    {PullsDefault,
     [PullsDefault EXCEPT ![100] = Pull(NoSha)],
     [PullsDefault EXCEPT ![9] = Pull(Squash1), ![1] = Pull(Squash1)]}

RemoteSet ==
    [prs : PrNodeSeqs, issues : IssueNodeSeqs, changelog : SUBSET ChangelogNumbers,
     pulls : {PullsDefault}]

\* the remotes of the whole-pipeline specification
PipelinePrSeqs ==
    {<<>>,
     <<[number |-> 600, closing |-> {100}], [number |-> 100, closing |-> {1}]>>,
     <<[number |-> 600, closing |-> {1}], [number |-> 100, closing |-> {1, 100}]>>,
     <<[number |-> 100, closing |-> {}]>>}

PipelineIssueSeqs ==
    {<<>>, <<[number |-> 1, events |-> <<[number |-> 100, merged |-> TRUE]>>]>>}

PipelineRemoteSet ==
    [prs : PipelinePrSeqs, issues : PipelineIssueSeqs, changelog : {{}, {1}},
     pulls : PullsSet]

(***************************************************************************)
(* resolve_pairs.py: pure parts                                            *)
(***************************************************************************)
\* bug variant: the self-pair is emitted for every pull request, linked or not
build_pairs_from_merged_prs_always_self(nodes) ==
    LET RECURSIVE F(_, _)
        F(k, acc) ==
            IF k > Len(nodes) THEN acc
            ELSE LET pr_num == nodes[k].number
                     linked == {iid \in nodes[k].closing : IsInt(iid)}
                 IN  IF ~IsInt(pr_num) THEN F(k + 1, acc)
                     ELSE F(k + 1, acc \cup {<<iid, pr_num>> : iid \in linked}
                                         \cup {<<pr_num, pr_num>>})
    IN  F(1, {})

build_pairs_from_merged_prs(nodes) ==
    LET RECURSIVE F(_, _)
        F(k, acc) ==
            IF k > Len(nodes) THEN acc
            ELSE LET pr_num == nodes[k].number
                     linked == {iid \in nodes[k].closing : IsInt(iid)}
                 IN  IF ~IsInt(pr_num) THEN F(k + 1, acc)
                     ELSE IF linked # {}
                          THEN F(k + 1, acc \cup {<<iid, pr_num>> : iid \in linked})
                          ELSE F(k + 1, acc \cup {<<pr_num, pr_num>>})
    IN  F(1, {})

\* bug variant: the closer's merged flag is not looked at
build_pairs_from_closed_issues_any_closer(nodes) ==
    LET evpairs(inum, evs) ==
            {<<inum, evs[e].number>> : e \in {x \in 1..Len(evs) : IsInt(evs[x].number)}}
        RECURSIVE F(_, _)
        F(k, acc) ==
            IF k > Len(nodes) THEN acc
            ELSE LET inum == nodes[k].number
                 IN  IF ~IsInt(inum) THEN F(k + 1, acc)
                     ELSE F(k + 1, acc \cup evpairs(inum, nodes[k].events))
    IN  F(1, {})

build_pairs_from_closed_issues(nodes) ==
    LET evpairs(inum, evs) ==
            {<<inum, evs[e].number>> : e \in {x \in 1..Len(evs) :
                 IsInt(evs[x].number) /\ evs[x].merged}}
        RECURSIVE F(_, _)
        F(k, acc) ==
            IF k > Len(nodes) THEN acc
            ELSE LET inum == nodes[k].number
                 IN  IF ~IsInt(inum) THEN F(k + 1, acc)
                     ELSE F(k + 1, acc \cup evpairs(inum, nodes[k].events))
    IN  F(1, {})

SetMax(S) == CHOOSE m \in S : \A x \in S : x <= m

\* main, lines 281-283
main_max_valid_id(nodes) ==
    LET all_pr_nums == {nodes[k].number : k \in {x \in 1..Len(nodes) : IsInt(nodes[x].number)}}
    IN  IF all_pr_nums # {} THEN SetMax(all_pr_nums) ELSE NoMaxId

\* bug variant: the changelog numbers are not bounded by max_valid_id
main_supplement_unbounded(prp, isp, nums, maxid) ==
    LET ap == prp \cup isp
        existing_ids == {x[1] : x \in ap} \cup {x[2] : x \in ap}
    IN  ap \cup {<<num, num>> : num \in {n \in nums : 1 <= n /\ n \notin existing_ids}}

\* main, lines 296-305: union of the two sources plus the changelog self-pairs
main_supplement(prp, isp, nums, maxid) ==
    LET ap == prp \cup isp
        existing_ids == {x[1] : x \in ap} \cup {x[2] : x \in ap}
    IN  ap \cup {<<num, num>> : num \in {n \in nums :
                      1 <= n /\ n <= maxid /\ n \notin existing_ids}}

\* bug variant: the filter compares with >= and so keeps nothing it should drop
main_drop_implausible_off(ap) ==
    {x \in ap : ~(x[1] # x[2] /\ x[1] >= 50 /\ x[2] - x[1] > 500)}

\* bug variant: a pull request whose pairs are all dropped is kept as a
\* self-pair
main_drop_implausible_keep_pr(ap) ==
    LET kept == {x \in ap : ~(x[1] # x[2] /\ x[1] < 50 /\ x[2] - x[1] > 500)}
    IN  kept \cup {<<x[2], x[2]>> : x \in {y \in ap : \A z \in kept : z[2] # y[2]}}

\* main, lines 312-313
main_drop_implausible(ap) ==
    {x \in ap : ~(x[1] # x[2] /\ x[1] < 50 /\ x[2] - x[1] > 500)}

\* bug variant: self-pairs are kept whether or not a real pair exists
main_promote_keep_self(ap) ==
    LET real == {x \in ap : x[1] # x[2]}
    IN  real \cup {x \in ap : x[1] = x[2]}

\* main, lines 316-319
main_promote(ap) ==
    LET real == {x \in ap : x[1] # x[2]}
        prs_with_real == {x[2] : x \in real}
    IN  real \cup {x \in ap : x[1] = x[2] /\ x[2] \notin prs_with_real}

TupleLess(a, b) == a[1] < b[1] \/ (a[1] = b[1] /\ a[2] < b[2])

\* bug variant: sorted(merged, reverse=True)
RECURSIVE sorted_descending(_)
sorted_descending(S) ==
    IF S = {} THEN <<>>
    ELSE LET m == CHOOSE x \in S : \A y \in S : x = y \/ TupleLess(y, x)
         IN  <<m>> \o sorted_descending(S \ {m})

RECURSIVE sorted(_)
sorted(S) ==
    IF S = {} THEN <<>>
    ELSE LET m == CHOOSE x \in S : \A y \in S : x = y \/ TupleLess(x, y)
         IN  <<m>> \o sorted(S \ {m})

RECURSIVE sorted_ints(_)
sorted_ints(S) ==
    IF S = {} THEN <<>>
    ELSE LET m == CHOOSE x \in S : \A y \in S : x <= y
         IN  <<m>> \o sorted_ints(S \ {m})

\* bug variant: one entry per issue side and one per pull-request side of a pair
main_pairs_list_twice(sorted_pairs) ==
    [k \in 1..(2 * Len(sorted_pairs)) |->
        [issue_id |-> sorted_pairs[(k + 1) \div 2][1],
         pr_id |-> sorted_pairs[(k + 1) \div 2][2],
         self_pair |-> (sorted_pairs[(k + 1) \div 2][1] = sorted_pairs[(k + 1) \div 2][2])]]

\* main, lines 322-323
main_pairs_list(sorted_pairs) ==
    [k \in 1..Len(sorted_pairs) |->
        [issue_id |-> sorted_pairs[k][1], pr_id |-> sorted_pairs[k][2],
         self_pair |-> (sorted_pairs[k][1] = sorted_pairs[k][2])]]

\* main, lines 324-326
main_refs(sorted_pairs) ==
    [issue_ids |-> sorted_ints({sorted_pairs[k][1] : k \in 1..Len(sorted_pairs)}),
     pr_ids |-> sorted_ints({sorted_pairs[k][2] : k \in 1..Len(sorted_pairs)})]

(***************************************************************************)
(* The resolve cache file                                                  *)
(***************************************************************************)
NoRefs == [issue_ids |-> <<>>, pr_ids |-> <<>>]

\* kind: what json.load makes of the file ("absent": no file; "notjson":
\* JSONDecodeError; "notutf8": bytes that are no UTF-8, on which json.load
\* raises UnicodeDecodeError; "list", "scalar": valid JSON whose top level is
\* a list, or a number, string or null; "object": a JSON object).
\* pairs_type: "list", or "other" for a "pairs" value that is no list.
\* refs_type: "object" (an object whose "issue_ids" is a list), "badobject" (a
\* non-empty object whose "issue_ids" is missing or no list), "empty" (a falsy
\* value: {}, [], "", 0, null), "other" (a non-empty list or string, a number)
CacheAbsent ==
    [kind |-> "absent", has_pairs |-> FALSE, pairs |-> <<>>,
     has_refs |-> FALSE, refs |-> NoRefs, pairs_type |-> "list", refs_type |-> "object"]

\* a JSON object with the keys "pairs" and/or "refs"
CacheObject(hp, p, hr, r) ==
    [kind |-> "object", has_pairs |-> hp, pairs |-> p, has_refs |-> hr, refs |-> r,
     pairs_type |-> "list", refs_type |-> "object"]

\* the file of the end-to-end scenario: {"pairs":[{"issue_id":7,"pr_id":9}]}
PairsOnlyCache ==
    CacheObject(TRUE, <<[issue_id |-> 7, pr_id |-> 9, self_pair |-> FALSE]>>, FALSE, NoRefs)

\* a complete cache as an earlier resolver run leaves it
GoodCache ==
    CacheObject(TRUE, <<[issue_id |-> 7, pr_id |-> 9, self_pair |-> FALSE]>>, TRUE,
                [issue_ids |-> <<7>>, pr_ids |-> <<9>>])

\* corrupted or hand-edited cache files
CacheNotJson == [CacheAbsent EXCEPT !.kind = "notjson"]
CacheNotUtf8 == [CacheAbsent EXCEPT !.kind = "notutf8"]
CacheTopList == [CacheAbsent EXCEPT !.kind = "list"]
CacheTopScalar == [CacheAbsent EXCEPT !.kind = "scalar"]
CacheNoPairs == CacheObject(FALSE, <<>>, TRUE, GoodCache.refs)
CachePairsNoList == [CacheNoPairs EXCEPT !.has_pairs = TRUE, !.pairs_type = "other"]
CacheRefsEmpty == [GoodCache EXCEPT !.refs = NoRefs, !.refs_type = "empty"]
CacheRefsBadObject == [GoodCache EXCEPT !.refs = NoRefs, !.refs_type = "badobject"]
CacheRefsOther == [GoodCache EXCEPT !.refs = NoRefs, !.refs_type = "other"]

MalformedCacheSet ==
    {CacheNotJson, CacheNotUtf8, CacheTopList, CacheTopScalar, CacheNoPairs, CachePairsNoList,
     CacheRefsEmpty, CacheRefsBadObject, CacheRefsOther}

LoadNone == [ok |-> FALSE, raised |-> FALSE, refs |-> NoRefs, pairs |-> <<>>]
LoadRaised == [LoadNone EXCEPT !.raised = TRUE]

\* isinstance(data.get("pairs"), list)
PairsIsList(file) == file.has_pairs /\ file.pairs_type = "list"

\* resolve_pairs.load_cache_if_valid: ok = FALSE stands for the result None,
\* raised for the UnicodeDecodeError of json.load and for the AttributeError
\* of .get on a value that is no object (only JSONDecodeError and OSError are
\* caught)
load_cache_if_valid(file) ==
    IF file.kind \in {"absent", "notjson"} THEN LoadNone
    ELSE IF file.kind # "object" THEN LoadRaised
    ELSE IF ~PairsIsList(file) \/ file.pairs = <<>> THEN LoadNone
    ELSE IF ~file.has_refs \/ file.refs_type = "empty" THEN LoadNone
    ELSE IF file.refs_type = "other" THEN LoadRaised
    ELSE IF file.refs_type = "badobject" THEN LoadNone
    ELSE [ok |-> TRUE, raised |-> FALSE, refs |-> file.refs, pairs |-> file.pairs]

(***************************************************************************)
(* resolve_pairs.main, one action per remote call                          *)
(***************************************************************************)
ResolverStopped == rpc \in {"idle", "done", "crashed"}
DriverStopped == dpc \in {"idle", "done", "crashed"}

\* main, lines 254-272: argument parsing and the cache short-cut
ResolverBegin(r, c) ==
    /\ caller' = c
    /\ refresh' = r
    /\ remote_calls' = 0
    /\ src_failed' = {}
    /\ pr_nodes' = <<>>
    /\ pr_pairs' = {}
    /\ max_valid_id' = NoMaxId
    /\ issue_nodes' = <<>>
    /\ issue_pairs' = {}
    /\ changelog_nums' = {}
    /\ all_pairs' = {}
    /\ merged' = {}
    /\ rpc' = IF ~r /\ load_cache_if_valid(resolve_cache).raised THEN "crashed"
              ELSE IF ~r /\ load_cache_if_valid(resolve_cache).ok THEN "done"
              ELSE "src1"

\* python features/resolve_pairs.py [--refresh] from the command line
ResolveStart(r) ==
    /\ ResolverStopped
    /\ DriverStopped
    /\ ResolverBegin(r, "cli")
    /\ UNCHANGED <<remote, avars, fvars, extract_cache, gvars, dvars, bvars>>

\* main, lines 275-283; gh_graphql raises RuntimeError when gh fails and
\* nothing catches it
FetchMergedPRs ==
    /\ rpc = "src1"
    /\ remote_calls' = remote_calls + 1
    /\ \/ /\ rpc' = "crashed"
          /\ src_failed' = src_failed \cup {"prs"}
          /\ UNCHANGED <<pr_nodes, pr_pairs, max_valid_id>>
       \/ /\ rpc' = "src2"
          /\ pr_nodes' = remote.prs
          /\ pr_pairs' = build_pairs_from_merged_prs(remote.prs)
          /\ max_valid_id' = main_max_valid_id(remote.prs)
          /\ UNCHANGED src_failed
    /\ UNCHANGED <<remote, avars, fvars, caller, refresh, issue_nodes, issue_pairs,
                   changelog_nums, all_pairs, merged, extract_cache, gvars, dvars, bvars>>

\* main, lines 286-289
FetchClosedIssues ==
    /\ rpc = "src2"
    /\ remote_calls' = remote_calls + 1
    /\ \/ /\ rpc' = "crashed"
          /\ src_failed' = src_failed \cup {"issues"}
          /\ UNCHANGED <<issue_nodes, issue_pairs>>
       \/ /\ rpc' = "src3"
          /\ issue_nodes' = remote.issues
          /\ issue_pairs' = build_pairs_from_closed_issues(remote.issues)
          /\ UNCHANGED src_failed
    /\ UNCHANGED <<remote, avars, fvars, caller, refresh, pr_nodes, pr_pairs, max_valid_id,
                   changelog_nums, all_pairs, merged, extract_cache, gvars, dvars, bvars>>

\* main, lines 292-293; fetch_changelog_refs catches the RuntimeError and
\* returns the empty set
FetchChangelog ==
    /\ rpc = "src3"
    /\ remote_calls' = remote_calls + 1
    /\ \/ /\ changelog_nums' = {}
          /\ src_failed' = src_failed \cup {"changelog"}
       \/ /\ changelog_nums' = remote.changelog
          /\ UNCHANGED src_failed
    /\ rpc' = "merge"
    /\ UNCHANGED <<remote, avars, fvars, caller, refresh, pr_nodes, pr_pairs, max_valid_id,
                   issue_nodes, issue_pairs, all_pairs, merged, extract_cache,
                   gvars, dvars, bvars>>

\* main, lines 296-334: merge, filter, promote, sort, write both files
MergeAndWrite ==
    /\ rpc = "merge"
    /\ LET ap == main_supplement(pr_pairs, issue_pairs, changelog_nums, max_valid_id)
           m == main_promote(main_drop_implausible(ap))
           sorted_pairs == sorted(m)
           pairs_list == main_pairs_list(sorted_pairs)
       IN  /\ all_pairs' = ap
           /\ merged' = m
           /\ resolve_cache' = CacheObject(TRUE, pairs_list, TRUE, main_refs(sorted_pairs))
           /\ pairs_file' = [exists |-> TRUE, pairs |-> pairs_list]
    /\ cache_writer' = "resolver"
    /\ rpc' = "done"
    /\ UNCHANGED <<remote, avars, caller, refresh, remote_calls, src_failed, pr_nodes, pr_pairs,
                   max_valid_id, issue_nodes, issue_pairs, changelog_nums,
                   extract_cache, gvars, dvars, bvars>>

(***************************************************************************)
(* features/extract.py                                                     *)
(***************************************************************************)
\* git merge-base a b: the common ancestor that no other common ancestor
\* descends from
RECURSIVE Ancestors(_)
Ancestors(c) ==
    {c} \cup UNION {Ancestors(Parents(c)[k]) : k \in 1..Len(Parents(c))}

merge_base(a, b) ==
    LET common == Ancestors(a) \cap Ancestors(b)
    IN  CHOOSE c \in common : \A d \in common : d \in Ancestors(c)

\* bug variant: the first parent is taken as base also for a true merge
base_sha_of_first_parent(merge_sha) == Parents(merge_sha)[1]

\* main, lines 92-102
base_sha_of(merge_sha) ==
    IF Len(Parents(merge_sha)) >= 2
    THEN merge_base(Parents(merge_sha)[1], Parents(merge_sha)[2])
    ELSE Parents(merge_sha)[1]

\* git branch <name> <sha>: fails when the name is taken
BranchName(h, role) == <<h, role>>

\* bug variant: git branch <name> without start point, in a fresh clone whose
\* HEAD is the tip of the default branch
SetBranch_at_head(br, name, sha) ==
    [n \in DOMAIN br \cup {name} |-> IF n = name THEN Squash1 ELSE br[n]]

SetBranch(br, name, sha) ==
    [n \in DOMAIN br \cup {name} |-> IF n = name THEN sha ELSE br[n]]

\* bug variant: every error is found only after the working copy was cloned
ExtractError_after_clone(msg, wd, br, hd) ==
    [ok |-> FALSE, err |-> msg, work_dir |-> TRUE, branches |-> br, head |-> hd,
     data |-> [root_hash |-> NoSha, h |-> "", branches |-> <<>>]]

ExtractError(msg, wd, br, hd) ==
    [ok |-> FALSE, err |-> msg, work_dir |-> wd, branches |-> br, head |-> hd,
     data |-> [root_hash |-> NoSha, h |-> "", branches |-> <<>>]]

\* the commit HEAD is at: the tip of the snapshot the working copy is switched
\* to, or the tip of the default branch in a fresh clone
HeadCommit(br, hd) == IF hd \in DOMAIN br THEN br[hd] ELSE Squash1

\* git switch <name> / git checkout <name>: fails when the branch is missing;
\* with uncommitted edits git refuses when an edited file differs between
\* the two commits (blocked), which cannot be when both are the same commit
git_switch_ok(br, hd, name, dirt, blocked) ==
    /\ name \in DOMAIN br
    /\ (dirt = {} \/ br[name] = HeadCommit(br, hd) \/ ~blocked)

\* what the operator types at the prompt, as Unicode code points; eof: the
\* input is at its end.  The texts: y; a capital Y between a vertical tab
\* and a no-break space; N; nothing; yes; y and a zero-width space (which is
\* no white space)
AnswerSet ==
    {[eof |-> FALSE, text |-> t] :
        t \in {<<121>>, <<11, 89, 160>>, <<78>>, <<>>, <<121, 101, 115>>, <<121, 8203>>}}
        \cup {[eof |-> TRUE, text |-> <<>>]}

\* str.isspace: the code points str.strip removes (Unicode 14.0, the
\* database of the Python 3.11 the scripts run under)
Whitespace ==
    (9..13) \cup (28..32) \cup {133, 160, 5760} \cup (8192..8202)
        \cup {8232, 8233, 8239, 8287, 12288}

\* str.strip: every white-space character at either end is removed
RECURSIVE strip_left(_)
strip_left(t) == IF t # <<>> /\ Head(t) \in Whitespace THEN strip_left(Tail(t)) ELSE t

RECURSIVE strip_right(_)
strip_right(t) ==
    IF t # <<>> /\ t[Len(t)] \in Whitespace THEN strip_right(SubSeq(t, 1, Len(t) - 1))
    ELSE t

strip(t) == strip_right(strip_left(t))

\* the lower-case mapping of the same database: code point -> the code
\* point of its small letter.  It is given as runs <<first, last, step, d>>:
\* every step-th code point from first to last has its small letter d code
\* points further on; a code point in no run has no other small form
LowerCase ==
    LET runs ==
        {<<65, 90, 1, 32>>, <<192, 214, 1, 32>>, <<216, 222, 1, 32>>, <<256, 302, 2, 1>>,
         <<306, 310, 2, 1>>, <<313, 327, 2, 1>>, <<330, 374, 2, 1>>, <<376, 376, 1, -121>>,
         <<377, 381, 2, 1>>, <<385, 385, 1, 210>>, <<386, 388, 2, 1>>, <<390, 390, 1, 206>>,
         <<391, 391, 1, 1>>, <<393, 394, 1, 205>>, <<395, 395, 1, 1>>, <<398, 398, 1, 79>>,
         <<399, 399, 1, 202>>, <<400, 400, 1, 203>>, <<401, 401, 1, 1>>,
         <<403, 403, 1, 205>>, <<404, 404, 1, 207>>, <<406, 406, 1, 211>>,
         <<407, 407, 1, 209>>, <<408, 408, 1, 1>>, <<412, 412, 1, 211>>,
         <<413, 413, 1, 213>>, <<415, 415, 1, 214>>, <<416, 420, 2, 1>>,
         <<422, 422, 1, 218>>, <<423, 423, 1, 1>>, <<425, 425, 1, 218>>, <<428, 428, 1, 1>>,
         <<430, 430, 1, 218>>, <<431, 431, 1, 1>>, <<433, 434, 1, 217>>, <<435, 437, 2, 1>>,
         <<439, 439, 1, 219>>, <<440, 440, 1, 1>>, <<444, 444, 1, 1>>, <<452, 452, 1, 2>>,
         <<453, 453, 1, 1>>, <<455, 455, 1, 2>>, <<456, 456, 1, 1>>, <<458, 458, 1, 2>>,
         <<459, 475, 2, 1>>, <<478, 494, 2, 1>>, <<497, 497, 1, 2>>, <<498, 500, 2, 1>>,
         <<502, 502, 1, -97>>, <<503, 503, 1, -56>>, <<504, 542, 2, 1>>,
         <<544, 544, 1, -130>>, <<546, 562, 2, 1>>, <<570, 570, 1, 10795>>,
         <<571, 571, 1, 1>>, <<573, 573, 1, -163>>, <<574, 574, 1, 10792>>,
         <<577, 577, 1, 1>>, <<579, 579, 1, -195>>, <<580, 580, 1, 69>>,
         <<581, 581, 1, 71>>, <<582, 590, 2, 1>>, <<880, 882, 2, 1>>, <<886, 886, 1, 1>>,
         <<895, 895, 1, 116>>, <<902, 902, 1, 38>>, <<904, 906, 1, 37>>,
         <<908, 908, 1, 64>>, <<910, 911, 1, 63>>, <<913, 929, 1, 32>>, <<931, 939, 1, 32>>,
         <<975, 975, 1, 8>>, <<984, 1006, 2, 1>>, <<1012, 1012, 1, -60>>,
         <<1015, 1015, 1, 1>>, <<1017, 1017, 1, -7>>, <<1018, 1018, 1, 1>>,
         <<1021, 1023, 1, -130>>, <<1024, 1039, 1, 80>>, <<1040, 1071, 1, 32>>,
         <<1120, 1152, 2, 1>>, <<1162, 1214, 2, 1>>, <<1216, 1216, 1, 15>>,
         <<1217, 1229, 2, 1>>, <<1232, 1326, 2, 1>>, <<1329, 1366, 1, 48>>,
         <<4256, 4293, 1, 7264>>, <<4295, 4295, 1, 7264>>, <<4301, 4301, 1, 7264>>,
         <<5024, 5103, 1, 38864>>, <<5104, 5109, 1, 8>>, <<7312, 7354, 1, -3008>>,
         <<7357, 7359, 1, -3008>>, <<7680, 7828, 2, 1>>, <<7838, 7838, 1, -7615>>,
         <<7840, 7934, 2, 1>>, <<7944, 7951, 1, -8>>, <<7960, 7965, 1, -8>>,
         <<7976, 7983, 1, -8>>, <<7992, 7999, 1, -8>>, <<8008, 8013, 1, -8>>,
         <<8025, 8031, 2, -8>>, <<8040, 8047, 1, -8>>, <<8072, 8079, 1, -8>>,
         <<8088, 8095, 1, -8>>, <<8104, 8111, 1, -8>>, <<8120, 8121, 1, -8>>,
         <<8122, 8123, 1, -74>>, <<8124, 8124, 1, -9>>, <<8136, 8139, 1, -86>>,
         <<8140, 8140, 1, -9>>, <<8152, 8153, 1, -8>>, <<8154, 8155, 1, -100>>,
         <<8168, 8169, 1, -8>>, <<8170, 8171, 1, -112>>, <<8172, 8172, 1, -7>>,
         <<8184, 8185, 1, -128>>, <<8186, 8187, 1, -126>>, <<8188, 8188, 1, -9>>,
         <<8486, 8486, 1, -7517>>, <<8490, 8490, 1, -8383>>, <<8491, 8491, 1, -8262>>,
         <<8498, 8498, 1, 28>>, <<8544, 8559, 1, 16>>, <<8579, 8579, 1, 1>>,
         <<9398, 9423, 1, 26>>, <<11264, 11311, 1, 48>>, <<11360, 11360, 1, 1>>,
         <<11362, 11362, 1, -10743>>, <<11363, 11363, 1, -3814>>,
         <<11364, 11364, 1, -10727>>, <<11367, 11371, 2, 1>>, <<11373, 11373, 1, -10780>>,
         <<11374, 11374, 1, -10749>>, <<11375, 11375, 1, -10783>>,
         <<11376, 11376, 1, -10782>>, <<11378, 11378, 1, 1>>, <<11381, 11381, 1, 1>>,
         <<11390, 11391, 1, -10815>>, <<11392, 11490, 2, 1>>, <<11499, 11501, 2, 1>>,
         <<11506, 11506, 1, 1>>, <<42560, 42604, 2, 1>>, <<42624, 42650, 2, 1>>,
         <<42786, 42798, 2, 1>>, <<42802, 42862, 2, 1>>, <<42873, 42875, 2, 1>>,
         <<42877, 42877, 1, -35332>>, <<42878, 42886, 2, 1>>, <<42891, 42891, 1, 1>>,
         <<42893, 42893, 1, -42280>>, <<42896, 42898, 2, 1>>, <<42902, 42920, 2, 1>>,
         <<42922, 42922, 1, -42308>>, <<42923, 42923, 1, -42319>>,
         <<42924, 42924, 1, -42315>>, <<42925, 42925, 1, -42305>>,
         <<42926, 42926, 1, -42308>>, <<42928, 42928, 1, -42258>>,
         <<42929, 42929, 1, -42282>>, <<42930, 42930, 1, -42261>>, <<42931, 42931, 1, 928>>,
         <<42932, 42946, 2, 1>>, <<42948, 42948, 1, -48>>, <<42949, 42949, 1, -42307>>,
         <<42950, 42950, 1, -35384>>, <<42951, 42953, 2, 1>>, <<42960, 42960, 1, 1>>,
         <<42966, 42968, 2, 1>>, <<42997, 42997, 1, 1>>, <<65313, 65338, 1, 32>>,
         <<66560, 66599, 1, 40>>, <<66736, 66771, 1, 40>>, <<66928, 66964, 2, 39>>,
         <<66929, 66937, 2, 39>>, <<66941, 66953, 2, 39>>, <<66957, 66961, 2, 39>>,
         <<66965, 66965, 1, 39>>, <<68736, 68786, 1, 64>>, <<71840, 71871, 1, 32>>,
         <<93760, 93791, 1, 32>>, <<125184, 125217, 1, 34>>}
        At(r) == {c \in r[1]..r[2] : (c - r[1]) % r[3] = 0}
    IN  [c \in UNION {At(r) : r \in runs} |->
            c + (CHOOSE r \in runs : c \in At(r))[4]]

\* the code points that are cased and not case-ignorable, given as runs
\* <<first, last>>
Cased ==
    LET runs ==
        {<<65, 90>>, <<97, 122>>, <<170, 170>>, <<181, 181>>, <<186, 186>>, <<192, 214>>,
         <<216, 246>>, <<248, 442>>, <<444, 447>>, <<452, 659>>, <<661, 687>>, <<880, 883>>,
         <<886, 887>>, <<891, 893>>, <<895, 895>>, <<902, 902>>, <<904, 906>>, <<908, 908>>,
         <<910, 929>>, <<931, 1013>>, <<1015, 1153>>, <<1162, 1327>>, <<1329, 1366>>,
         <<1376, 1416>>, <<4256, 4293>>, <<4295, 4295>>, <<4301, 4301>>, <<4304, 4346>>,
         <<4349, 4351>>, <<5024, 5109>>, <<5112, 5117>>, <<7296, 7304>>, <<7312, 7354>>,
         <<7357, 7359>>, <<7424, 7467>>, <<7531, 7543>>, <<7545, 7578>>, <<7680, 7957>>,
         <<7960, 7965>>, <<7968, 8005>>, <<8008, 8013>>, <<8016, 8023>>, <<8025, 8025>>,
         <<8027, 8027>>, <<8029, 8029>>, <<8031, 8061>>, <<8064, 8116>>, <<8118, 8124>>,
         <<8126, 8126>>, <<8130, 8132>>, <<8134, 8140>>, <<8144, 8147>>, <<8150, 8155>>,
         <<8160, 8172>>, <<8178, 8180>>, <<8182, 8188>>, <<8450, 8450>>, <<8455, 8455>>,
         <<8458, 8467>>, <<8469, 8469>>, <<8473, 8477>>, <<8484, 8484>>, <<8486, 8486>>,
         <<8488, 8488>>, <<8490, 8493>>, <<8495, 8500>>, <<8505, 8505>>, <<8508, 8511>>,
         <<8517, 8521>>, <<8526, 8526>>, <<8544, 8575>>, <<8579, 8580>>, <<9398, 9449>>,
         <<11264, 11387>>, <<11390, 11492>>, <<11499, 11502>>, <<11506, 11507>>,
         <<11520, 11557>>, <<11559, 11559>>, <<11565, 11565>>, <<42560, 42605>>,
         <<42624, 42651>>, <<42786, 42863>>, <<42865, 42887>>, <<42891, 42894>>,
         <<42896, 42954>>, <<42960, 42961>>, <<42963, 42963>>, <<42965, 42969>>,
         <<42997, 42998>>, <<43002, 43002>>, <<43824, 43866>>, <<43872, 43880>>,
         <<43888, 43967>>, <<64256, 64262>>, <<64275, 64279>>, <<65313, 65338>>,
         <<65345, 65370>>, <<66560, 66639>>, <<66736, 66771>>, <<66776, 66811>>,
         <<66928, 66938>>, <<66940, 66954>>, <<66956, 66962>>, <<66964, 66965>>,
         <<66967, 66977>>, <<66979, 66993>>, <<66995, 67001>>, <<67003, 67004>>,
         <<68736, 68786>>, <<68800, 68850>>, <<71840, 71903>>, <<93760, 93823>>,
         <<119808, 119892>>, <<119894, 119964>>, <<119966, 119967>>, <<119970, 119970>>,
         <<119973, 119974>>, <<119977, 119980>>, <<119982, 119993>>, <<119995, 119995>>,
         <<119997, 120003>>, <<120005, 120069>>, <<120071, 120074>>, <<120077, 120084>>,
         <<120086, 120092>>, <<120094, 120121>>, <<120123, 120126>>, <<120128, 120132>>,
         <<120134, 120134>>, <<120138, 120144>>, <<120146, 120485>>, <<120488, 120512>>,
         <<120514, 120538>>, <<120540, 120570>>, <<120572, 120596>>, <<120598, 120628>>,
         <<120630, 120654>>, <<120656, 120686>>, <<120688, 120712>>, <<120714, 120744>>,
         <<120746, 120770>>, <<120772, 120779>>, <<122624, 122633>>, <<122635, 122654>>,
         <<125184, 125251>>, <<127280, 127305>>, <<127312, 127337>>, <<127344, 127369>>}
    IN  UNION {r[1]..r[2] : r \in runs}

\* the case-ignorable code points, given as runs <<first, last>>
CaseIgnorable ==
    LET runs ==
        {<<39, 39>>, <<46, 46>>, <<58, 58>>, <<94, 94>>, <<96, 96>>, <<168, 168>>,
         <<173, 173>>, <<175, 175>>, <<180, 180>>, <<183, 184>>, <<688, 879>>, <<884, 885>>,
         <<890, 890>>, <<900, 901>>, <<903, 903>>, <<1155, 1161>>, <<1369, 1369>>,
         <<1375, 1375>>, <<1425, 1469>>, <<1471, 1471>>, <<1473, 1474>>, <<1476, 1477>>,
         <<1479, 1479>>, <<1524, 1524>>, <<1536, 1541>>, <<1552, 1562>>, <<1564, 1564>>,
         <<1600, 1600>>, <<1611, 1631>>, <<1648, 1648>>, <<1750, 1757>>, <<1759, 1768>>,
         <<1770, 1773>>, <<1807, 1807>>, <<1809, 1809>>, <<1840, 1866>>, <<1958, 1968>>,
         <<2027, 2037>>, <<2042, 2042>>, <<2045, 2045>>, <<2070, 2093>>, <<2137, 2139>>,
         <<2184, 2184>>, <<2192, 2193>>, <<2200, 2207>>, <<2249, 2306>>, <<2362, 2362>>,
         <<2364, 2364>>, <<2369, 2376>>, <<2381, 2381>>, <<2385, 2391>>, <<2402, 2403>>,
         <<2417, 2417>>, <<2433, 2433>>, <<2492, 2492>>, <<2497, 2500>>, <<2509, 2509>>,
         <<2530, 2531>>, <<2558, 2558>>, <<2561, 2562>>, <<2620, 2620>>, <<2625, 2626>>,
         <<2631, 2632>>, <<2635, 2637>>, <<2641, 2641>>, <<2672, 2673>>, <<2677, 2677>>,
         <<2689, 2690>>, <<2748, 2748>>, <<2753, 2757>>, <<2759, 2760>>, <<2765, 2765>>,
         <<2786, 2787>>, <<2810, 2815>>, <<2817, 2817>>, <<2876, 2876>>, <<2879, 2879>>,
         <<2881, 2884>>, <<2893, 2893>>, <<2901, 2902>>, <<2914, 2915>>, <<2946, 2946>>,
         <<3008, 3008>>, <<3021, 3021>>, <<3072, 3072>>, <<3076, 3076>>, <<3132, 3132>>,
         <<3134, 3136>>, <<3142, 3144>>, <<3146, 3149>>, <<3157, 3158>>, <<3170, 3171>>,
         <<3201, 3201>>, <<3260, 3260>>, <<3263, 3263>>, <<3270, 3270>>, <<3276, 3277>>,
         <<3298, 3299>>, <<3328, 3329>>, <<3387, 3388>>, <<3393, 3396>>, <<3405, 3405>>,
         <<3426, 3427>>, <<3457, 3457>>, <<3530, 3530>>, <<3538, 3540>>, <<3542, 3542>>,
         <<3633, 3633>>, <<3636, 3642>>, <<3654, 3662>>, <<3761, 3761>>, <<3764, 3772>>,
         <<3782, 3782>>, <<3784, 3789>>, <<3864, 3865>>, <<3893, 3893>>, <<3895, 3895>>,
         <<3897, 3897>>, <<3953, 3966>>, <<3968, 3972>>, <<3974, 3975>>, <<3981, 3991>>,
         <<3993, 4028>>, <<4038, 4038>>, <<4141, 4144>>, <<4146, 4151>>, <<4153, 4154>>,
         <<4157, 4158>>, <<4184, 4185>>, <<4190, 4192>>, <<4209, 4212>>, <<4226, 4226>>,
         <<4229, 4230>>, <<4237, 4237>>, <<4253, 4253>>, <<4348, 4348>>, <<4957, 4959>>,
         <<5906, 5908>>, <<5938, 5939>>, <<5970, 5971>>, <<6002, 6003>>, <<6068, 6069>>,
         <<6071, 6077>>, <<6086, 6086>>, <<6089, 6099>>, <<6103, 6103>>, <<6109, 6109>>,
         <<6155, 6159>>, <<6211, 6211>>, <<6277, 6278>>, <<6313, 6313>>, <<6432, 6434>>,
         <<6439, 6440>>, <<6450, 6450>>, <<6457, 6459>>, <<6679, 6680>>, <<6683, 6683>>,
         <<6742, 6742>>, <<6744, 6750>>, <<6752, 6752>>, <<6754, 6754>>, <<6757, 6764>>,
         <<6771, 6780>>, <<6783, 6783>>, <<6823, 6823>>, <<6832, 6862>>, <<6912, 6915>>,
         <<6964, 6964>>, <<6966, 6970>>, <<6972, 6972>>, <<6978, 6978>>, <<7019, 7027>>,
         <<7040, 7041>>, <<7074, 7077>>, <<7080, 7081>>, <<7083, 7085>>, <<7142, 7142>>,
         <<7144, 7145>>, <<7149, 7149>>, <<7151, 7153>>, <<7212, 7219>>, <<7222, 7223>>,
         <<7288, 7293>>, <<7376, 7378>>, <<7380, 7392>>, <<7394, 7400>>, <<7405, 7405>>,
         <<7412, 7412>>, <<7416, 7417>>, <<7468, 7530>>, <<7544, 7544>>, <<7579, 7679>>,
         <<8125, 8125>>, <<8127, 8129>>, <<8141, 8143>>, <<8157, 8159>>, <<8173, 8175>>,
         <<8189, 8190>>, <<8203, 8207>>, <<8216, 8217>>, <<8228, 8228>>, <<8231, 8231>>,
         <<8234, 8238>>, <<8288, 8292>>, <<8294, 8303>>, <<8305, 8305>>, <<8319, 8319>>,
         <<8336, 8348>>, <<8400, 8432>>, <<11388, 11389>>, <<11503, 11505>>,
         <<11631, 11631>>, <<11647, 11647>>, <<11744, 11775>>, <<11823, 11823>>,
         <<12293, 12293>>, <<12330, 12333>>, <<12337, 12341>>, <<12347, 12347>>,
         <<12441, 12446>>, <<12540, 12542>>, <<40981, 40981>>, <<42232, 42237>>,
         <<42508, 42508>>, <<42607, 42610>>, <<42612, 42621>>, <<42623, 42623>>,
         <<42652, 42655>>, <<42736, 42737>>, <<42752, 42785>>, <<42864, 42864>>,
         <<42888, 42890>>, <<42994, 42996>>, <<43000, 43001>>, <<43010, 43010>>,
         <<43014, 43014>>, <<43019, 43019>>, <<43045, 43046>>, <<43052, 43052>>,
         <<43204, 43205>>, <<43232, 43249>>, <<43263, 43263>>, <<43302, 43309>>,
         <<43335, 43345>>, <<43392, 43394>>, <<43443, 43443>>, <<43446, 43449>>,
         <<43452, 43453>>, <<43471, 43471>>, <<43493, 43494>>, <<43561, 43566>>,
         <<43569, 43570>>, <<43573, 43574>>, <<43587, 43587>>, <<43596, 43596>>,
         <<43632, 43632>>, <<43644, 43644>>, <<43696, 43696>>, <<43698, 43700>>,
         <<43703, 43704>>, <<43710, 43711>>, <<43713, 43713>>, <<43741, 43741>>,
         <<43756, 43757>>, <<43763, 43764>>, <<43766, 43766>>, <<43867, 43871>>,
         <<43881, 43883>>, <<44005, 44005>>, <<44008, 44008>>, <<44013, 44013>>,
         <<64286, 64286>>, <<64434, 64450>>, <<65024, 65039>>, <<65043, 65043>>,
         <<65056, 65071>>, <<65106, 65106>>, <<65109, 65109>>, <<65279, 65279>>,
         <<65287, 65287>>, <<65294, 65294>>, <<65306, 65306>>, <<65342, 65342>>,
         <<65344, 65344>>, <<65392, 65392>>, <<65438, 65439>>, <<65507, 65507>>,
         <<65529, 65531>>, <<66045, 66045>>, <<66272, 66272>>, <<66422, 66426>>,
         <<67456, 67461>>, <<67463, 67504>>, <<67506, 67514>>, <<68097, 68099>>,
         <<68101, 68102>>, <<68108, 68111>>, <<68152, 68154>>, <<68159, 68159>>,
         <<68325, 68326>>, <<68900, 68903>>, <<69291, 69292>>, <<69446, 69456>>,
         <<69506, 69509>>, <<69633, 69633>>, <<69688, 69702>>, <<69744, 69744>>,
         <<69747, 69748>>, <<69759, 69761>>, <<69811, 69814>>, <<69817, 69818>>,
         <<69821, 69821>>, <<69826, 69826>>, <<69837, 69837>>, <<69888, 69890>>,
         <<69927, 69931>>, <<69933, 69940>>, <<70003, 70003>>, <<70016, 70017>>,
         <<70070, 70078>>, <<70089, 70092>>, <<70095, 70095>>, <<70191, 70193>>,
         <<70196, 70196>>, <<70198, 70199>>, <<70206, 70206>>, <<70367, 70367>>,
         <<70371, 70378>>, <<70400, 70401>>, <<70459, 70460>>, <<70464, 70464>>,
         <<70502, 70508>>, <<70512, 70516>>, <<70712, 70719>>, <<70722, 70724>>,
         <<70726, 70726>>, <<70750, 70750>>, <<70835, 70840>>, <<70842, 70842>>,
         <<70847, 70848>>, <<70850, 70851>>, <<71090, 71093>>, <<71100, 71101>>,
         <<71103, 71104>>, <<71132, 71133>>, <<71219, 71226>>, <<71229, 71229>>,
         <<71231, 71232>>, <<71339, 71339>>, <<71341, 71341>>, <<71344, 71349>>,
         <<71351, 71351>>, <<71453, 71455>>, <<71458, 71461>>, <<71463, 71467>>,
         <<71727, 71735>>, <<71737, 71738>>, <<71995, 71996>>, <<71998, 71998>>,
         <<72003, 72003>>, <<72148, 72151>>, <<72154, 72155>>, <<72160, 72160>>,
         <<72193, 72202>>, <<72243, 72248>>, <<72251, 72254>>, <<72263, 72263>>,
         <<72273, 72278>>, <<72281, 72283>>, <<72330, 72342>>, <<72344, 72345>>,
         <<72752, 72758>>, <<72760, 72765>>, <<72767, 72767>>, <<72850, 72871>>,
         <<72874, 72880>>, <<72882, 72883>>, <<72885, 72886>>, <<73009, 73014>>,
         <<73018, 73018>>, <<73020, 73021>>, <<73023, 73029>>, <<73031, 73031>>,
         <<73104, 73105>>, <<73109, 73109>>, <<73111, 73111>>, <<73459, 73460>>,
         <<78896, 78904>>, <<92912, 92916>>, <<92976, 92982>>, <<92992, 92995>>,
         <<94031, 94031>>, <<94095, 94111>>, <<94176, 94177>>, <<94179, 94180>>,
         <<110576, 110579>>, <<110581, 110587>>, <<110589, 110590>>, <<113821, 113822>>,
         <<113824, 113827>>, <<118528, 118573>>, <<118576, 118598>>, <<119143, 119145>>,
         <<119155, 119170>>, <<119173, 119179>>, <<119210, 119213>>, <<119362, 119364>>,
         <<121344, 121398>>, <<121403, 121452>>, <<121461, 121461>>, <<121476, 121476>>,
         <<121499, 121503>>, <<121505, 121519>>, <<122880, 122886>>, <<122888, 122904>>,
         <<122907, 122913>>, <<122915, 122916>>, <<122918, 122922>>, <<123184, 123197>>,
         <<123566, 123566>>, <<123628, 123631>>, <<125136, 125142>>, <<125252, 125259>>,
         <<127995, 127999>>, <<917505, 917505>>, <<917536, 917631>>, <<917760, 917999>>}
    IN  UNION {r[1]..r[2] : r \in runs}

\* str.lower: every letter becomes its small form.  The capital I with dot
\* above (304) becomes i and a combining dot; the capital sigma (931) becomes
\* the final sigma (962) when a cased letter stands before it and none after
\* it, case-ignorable code points passed over, and the plain one (963)
\* otherwise
lower(t) ==
    LET Before(k) == {j \in 1..(k - 1) : t[j] \notin CaseIgnorable}
        After(k) == {j \in (k + 1)..Len(t) : t[j] \notin CaseIgnorable}
        Last(S) == CHOOSE j \in S : \A i \in S : i <= j
        First(S) == CHOOSE j \in S : \A i \in S : j <= i
        final_sigma(k) ==
            /\ Before(k) # {}
            /\ t[Last(Before(k))] \in Cased
            /\ (After(k) = {} \/ t[First(After(k))] \notin Cased)
        small(k) ==
            IF t[k] = 931 THEN <<IF final_sigma(k) THEN 962 ELSE 963>>
            ELSE IF t[k] = 304 THEN <<105, 775>>
            ELSE IF t[k] \in DOMAIN LowerCase THEN <<LowerCase[t[k]]>>
            ELSE <<t[k]>>
        RECURSIVE from(_)
        from(k) == IF k > Len(t) THEN <<>> ELSE small(k) \o from(k + 1)
    IN  from(1)

\* the operator at the clone prompts, who is asked once in a run: y, a
\* capital Y between a no-break space and a vertical tab, N, a capital I
\* with dot above (its small form is two code points), two Greek capitals of
\* which the last is a sigma, or the end of the input
CloneAnswerSet ==
    {[eof |-> FALSE, text |-> <<121>>], [eof |-> FALSE, text |-> <<160, 89, 11>>],
     [eof |-> FALSE, text |-> <<78>>], [eof |-> FALSE, text |-> <<304>>],
     [eof |-> FALSE, text |-> <<927, 931>>], [eof |-> TRUE, text |-> <<>>]}

\* extract.py main; autoc: --autoc is given, answer: what is typed at the
\* clone prompt; pr_fail, issue_fail, clone_fail: the gh or git call fails
\* for a reason outside the model (network, rate limit); blocked:
\* uncommitted edits stand in the way of the final checkout
extract_main(issue_num, pr_num, autoc, answer, pr_fail, issue_fail, clone_fail, blocked) ==
    LET pr == remote.pulls[pr_num]
        merge_sha == pr.merge_commit_sha
        base_sha == base_sha_of(merge_sha)
        h == base_sha[1]
        b1 == SetBranch(branches, BranchName(h, "base"), base_sha)
        b2 == SetBranch(b1, BranchName(h, "human"), merge_sha)
    IN  IF pr_fail \/ ~pr.found
        THEN ExtractError("cmd failed: gh api pulls", work_dir, branches, head)
        ELSE IF issue_fail
        THEN ExtractError("cmd failed: gh api issues", work_dir, branches, head)
        ELSE IF merge_sha = NoSha
        THEN ExtractError("no merge_commit_sha", work_dir, branches, head)
        ELSE IF ~work_dir /\ ~autoc /\ answer.eof
        THEN ExtractError("EOFError", work_dir, branches, head)
        ELSE IF ~work_dir /\ ~autoc /\ lower(strip(answer.text)) # <<121>>
        THEN ExtractError("clone declined by user", work_dir, branches, head)
        ELSE IF ~work_dir /\ clone_fail
        THEN ExtractError("cmd failed: git clone", work_dir, branches, head)
        ELSE IF BranchName(h, "base") \in DOMAIN branches
        THEN ExtractError("cmd failed: git branch", TRUE, branches, head)
        ELSE IF BranchName(h, "human") \in DOMAIN b1
        THEN ExtractError("cmd failed: git branch", TRUE, b1, head)
        ELSE IF ~git_switch_ok(b2, head, BranchName(h, "base"), dirty, blocked)
        THEN ExtractError("cmd failed: git checkout", TRUE, b2, head)
        ELSE [ok |-> TRUE, err |-> "", work_dir |-> TRUE, branches |-> b2,
              head |-> BranchName(h, "base"),
              data |-> [root_hash |-> base_sha, h |-> h,
                        branches |-> [n \in {BranchName(h, "base"), BranchName(h, "human")}
                                          |-> b2[n]]]]

(***************************************************************************)
(* features/agent_change.py                                                *)
(***************************************************************************)
\* Bound: runs of agent_change.py and of src/extract.py in one behaviour
MaxAgentRuns == 2

\* what the external agent did: its exit status and whether it edited files
AgentOutcomes == {"ok_change", "ok_nochange", "fail_dirty", "fail_clean"}

AgentVariants == {"cursor", "cursor-creative"}

\* the environment of one agent_change.py run: whether the agent binary is
\* found, whether gh api issues fails, what the agent does in its two
\* invocations, whether uncommitted edits block a switch
AgentEnvs ==
    [agent_found : BOOLEAN, issue_fail : BOOLEAN, plain : AgentOutcomes,
     creative : AgentOutcomes, blocked : BOOLEAN]

\* one environment for each course a run can take: what is never reached
\* (the agent when it is not found, the second invocation when the first
\* failed) is left at a fixed value
AgentEnvSet ==
    {env \in AgentEnvs :
        /\ ~env.agent_found => ~env.issue_fail
        /\ (~env.agent_found \/ env.issue_fail) =>
               (env.plain = "ok_change" /\ env.creative = "ok_change" /\ ~env.blocked)
        /\ env.plain \in {"fail_dirty", "fail_clean"} => env.creative = "ok_change"}

\* the commit a run of the agent runner creates on a snapshot
AgentCommitId(att, variant) ==
    <<"f0000000", IF variant = "cursor" THEN 2 * att - 1 ELSE 2 * att>>

\* the content of a commit: an upstream commit, plus the edits of the agent
\* commit made on top of it
Content(commits, c) ==
    IF c \in DOMAIN commits
    THEN [of |-> commits[c].parent, edits |-> commits[c].edits]
    ELSE [of |-> c, edits |-> {}]

\* the content of the working copy: the commit HEAD is at plus the
\* uncommitted edits
WorkingCopy(commits, br, hd, dirt) ==
    [of |-> Content(commits, HeadCommit(br, hd)).of,
     edits |-> Content(commits, HeadCommit(br, hd)).edits \cup dirt]

\* git branch -f <name> <start>: refused for the branch that is checked out
\* and for a start point that does not exist
git_branch_f_ok(br, hd, name, start) == start \in DOMAIN br /\ hd # name

\* the state an agent_change.py process works on; ok = FALSE once it has
\* called sys.exit(1)
GitState(br, hd, dirt, commits) ==
    [ok |-> TRUE, err |-> "", branches |-> br, head |-> hd, dirty |-> dirt,
     commits |-> commits, log |-> <<>>]

\* bug variant: a failed agent is run once more before the runner gives up
AgentExit_after_retry(g, msg) ==
    [g EXCEPT !.ok = FALSE, !.err = msg,
              !.log = IF msg = "agent" THEN Append(@, @[Len(@)]) ELSE @]

\* run() and run_cursor_agent on a non-zero exit status: sys.exit(1)
AgentExit(g, msg) == [g EXCEPT !.ok = FALSE, !.err = msg]

\* bug variant: the commit is made on the base snapshot of the pair
git_commit_on_base(g, name, cid) ==
    IF g.dirty = {} THEN g
    ELSE [g EXCEPT !.commits = [c \in DOMAIN g.commits \cup {cid} |->
                                    IF c = cid
                                    THEN [parent |-> g.branches[BranchName(name[1], "base")],
                                          edits |-> g.dirty]
                                    ELSE g.commits[c]],
                   !.branches = SetBranch(g.branches, BranchName(name[1], "base"), cid),
                   !.dirty = {}]

\* bug variant: nothing is committed after the agent
git_commit_skipped(g, name, cid) == g

\* run_cursor_agent lines 53-55: git add -A, and git commit unless nothing is
\* staged
git_commit(g, name, cid) ==
    IF g.dirty = {} THEN g
    ELSE [g EXCEPT !.commits = [c \in DOMAIN g.commits \cup {cid} |->
                                    IF c = cid
                                    THEN [parent |-> Content(g.commits, g.branches[name]).of,
                                          edits |-> Content(g.commits, g.branches[name]).edits
                                                        \cup g.dirty]
                                    ELSE g.commits[c]],
                   !.branches = SetBranch(g.branches, name, cid),
                   !.dirty = {}]

\* run_cursor_agent: switch to the snapshot, run the agent, commit
run_cursor_agent(g, name, label, cid, outcome, blocked) ==
    IF ~g.ok THEN g
    ELSE IF ~git_switch_ok(g.branches, g.head, name, g.dirty, blocked)
    THEN AgentExit(g, "git switch")
    ELSE LET d == IF outcome \in {"ok_change", "fail_dirty"}
                  THEN g.dirty \cup {label} ELSE g.dirty
             on == [g EXCEPT !.head = name, !.dirty = d]
             entry == [branch |-> name,
                       returncode |-> IF outcome \in {"ok_change", "ok_nochange"}
                                      THEN 0 ELSE 1,
                       label |-> label,
                       content |-> WorkingCopy(on.commits, on.branches, on.head, on.dirty)]
             ran == [on EXCEPT !.log = Append(g.log, entry)]
         IN  IF entry.returncode # 0 THEN AgentExit(ran, "agent")
             ELSE git_commit(ran, name, cid)

\* agent_change.py main
agent_change_main(issue_num, h, env) ==
    LET att == attempts + 1
        base == BranchName(h, "base")
        plain == BranchName(h, "cursor")
        creative == BranchName(h, "cursor-creative")
        g0 == GitState(branches, head, dirty, agent_commits)
        g1 == [g0 EXCEPT !.branches = SetBranch(g0.branches, plain, g0.branches[base])]
        g2 == [g1 EXCEPT !.branches = SetBranch(g1.branches, creative, g1.branches[base])]
        g3 == run_cursor_agent(g2, plain, <<att, "cursor">>,
                               AgentCommitId(att, "cursor"), env.plain, env.blocked)
        g4 == run_cursor_agent(g3, creative, <<att, "cursor-creative">>,
                               AgentCommitId(att, "cursor-creative"), env.creative,
                               env.blocked)
    IN  IF ~work_dir THEN AgentExit(g0, "work dir not found")
        ELSE IF ~git_branch_f_ok(g0.branches, g0.head, plain, base)
        THEN AgentExit(g0, "git branch")
        ELSE IF ~git_branch_f_ok(g1.branches, g1.head, creative, base)
        THEN AgentExit(g1, "git branch")
        ELSE IF ~env.agent_found THEN AgentExit(g2, "agent not found")
        ELSE IF env.issue_fail THEN AgentExit(g2, "gh api issues")
        ELSE IF ~g4.ok THEN g4
        ELSE IF ~git_switch_ok(g4.branches, g4.head, base, g4.dirty, env.blocked)
        THEN AgentExit(g4, "git checkout")
        ELSE [g4 EXCEPT !.head = base]

\* src/extract.py lines 124-131: git branch <name> <sha> for each of the
\* names in turn; git refuses a name that exists, and the names made before
\* stay
RECURSIVE git_branch_each(_, _)
git_branch_each(br, todo) ==
    IF todo = <<>> THEN [ok |-> TRUE, branches |-> br]
    ELSE IF todo[1][1] \in DOMAIN br THEN [ok |-> FALSE, branches |-> br]
    ELSE git_branch_each(SetBranch(br, todo[1][1], todo[1][2]), Tail(todo))

\* src/extract.py main, the script that makes all four snapshots of a pair
\* and runs the agent on two of them; answer: what is typed at the clone
\* prompt
legacy_extract_main(issue_num, pr_num, answer, env, pr_fail, clone_fail) ==
    LET att == attempts + 1
        pr == remote.pulls[pr_num]
        merge_sha == pr.merge_commit_sha
        base_sha == base_sha_of(merge_sha)
        h == base_sha[1]
        base == BranchName(h, "base")
        plain == BranchName(h, "cursor")
        creative == BranchName(h, "cursor-creative")
        g0 == GitState(branches, head, dirty, agent_commits)
        made == git_branch_each(branches,
                                <<<<base, base_sha>>, <<BranchName(h, "human"), merge_sha>>,
                                  <<plain, base_sha>>, <<creative, base_sha>>>>)
        g1 == [g0 EXCEPT !.branches = made.branches]
        g2 == run_cursor_agent(g1, plain, <<att, "cursor">>,
                               AgentCommitId(att, "cursor"), env.plain, env.blocked)
        g3 == run_cursor_agent(g2, creative, <<att, "cursor-creative">>,
                               AgentCommitId(att, "cursor-creative"), env.creative,
                               env.blocked)
        Exit(g, msg, wd) == [git |-> AgentExit(g, msg), work_dir |-> wd]
    IN  IF ~env.agent_found THEN Exit(g0, "agent not found", work_dir)
        ELSE IF pr_fail \/ ~pr.found THEN Exit(g0, "Failed to fetch PR", work_dir)
        ELSE IF env.issue_fail THEN Exit(g0, "Failed to fetch issue", work_dir)
        ELSE IF merge_sha = NoSha THEN Exit(g0, "PR is not merged", work_dir)
        ELSE IF ~work_dir /\ answer.eof THEN Exit(g0, "EOFError", work_dir)
        ELSE IF ~work_dir /\ lower(strip(answer.text)) # <<121>>
        THEN Exit(g0, "Exiting...", work_dir)
        ELSE IF ~work_dir /\ clone_fail THEN Exit(g0, "git clone", work_dir)
        ELSE IF ~made.ok THEN Exit(g1, "git branch", TRUE)
        ELSE IF ~g3.ok THEN [git |-> g3, work_dir |-> TRUE]
        ELSE IF ~git_switch_ok(g3.branches, g3.head, base, g3.dirty, env.blocked)
        THEN Exit(g3, "git checkout", TRUE)
        ELSE [git |-> [g3 EXCEPT !.head = base], work_dir |-> TRUE]

\* one run of agent_change.py, as far as the working copy is concerned
AgentChangeRun(h, res) ==
    /\ attempts' = attempts + 1
    /\ agent_h' = h
    /\ branches' = res.branches
    /\ head' = res.head
    /\ dirty' = res.dirty
    /\ agent_commits' = res.commits
    /\ agent_log' = res.log
    /\ agent_err' = res.err
    /\ UNCHANGED work_dir

(***************************************************************************)
(* features/build_dataset.py: the resolve cache as the driver reads it     *)
(***************************************************************************)
\* _load_cache and load_pairs_from_cache: ok = FALSE stands for None, raised
\* for the UnicodeDecodeError of json.load and for the AttributeError of
\* data.get on a top level that is no object
load_pairs_from_cache(file) ==
    IF file.kind \in {"absent", "notjson"} THEN [ok |-> FALSE, raised |-> FALSE, pairs |-> <<>>]
    ELSE IF file.kind # "object" THEN [ok |-> FALSE, raised |-> TRUE, pairs |-> <<>>]
    ELSE IF ~PairsIsList(file) THEN [ok |-> FALSE, raised |-> FALSE, pairs |-> <<>>]
    ELSE [ok |-> TRUE, raised |-> FALSE, pairs |-> file.pairs]

\* args.limit: <<>> when --limit is not given (None), <<n>> for --limit n
NoLimit == <<>>

\* pairs[: args.limit]: a negative limit counts from the end of the list
ApplyLimit(ps, lim) ==
    IF lim = NoLimit THEN ps
    ELSE LET stop == IF lim[1] >= 0 THEN lim[1] ELSE Len(ps) + lim[1]
         IN  IF stop >= Len(ps) THEN ps
             ELSE IF stop <= 0 THEN <<>>
             ELSE SubSeq(ps, 1, stop)

\* dict.get(key) on the EXTRACT_JSON object: None (NoSha) for a missing key
get(obj, key) == IF key \in DOMAIN obj THEN obj[key] ELSE NoSha

(***************************************************************************)
(* features/build_dataset.py: the extract cache and the dataset rows       *)
(***************************************************************************)
\* kind: "absent", "notjson", "notutf8" (bytes that are no UTF-8), "other"
\* (valid JSON that is no list), "list"
ExtractCacheAbsent == [kind |-> "absent", entries |-> <<>>]
ExtractCacheNotJson == [kind |-> "notjson", entries |-> <<>>]
ExtractCacheNotUtf8 == [kind |-> "notutf8", entries |-> <<>>]
ExtractCacheNoList == [kind |-> "other", entries |-> <<>>]

\* load_extract_cache: ok = FALSE stands for None, raised for the
\* UnicodeDecodeError of json.load, which the except clause does not catch
load_extract_cache(file) ==
    IF file.kind = "list" THEN [ok |-> TRUE, raised |-> FALSE, entries |-> file.entries]
    ELSE IF file.kind = "notutf8" THEN [ok |-> FALSE, raised |-> TRUE, entries |-> <<>>]
    ELSE [ok |-> FALSE, raised |-> FALSE, entries |-> <<>>]

\* save_extract_cache
save_extract_cache(es) == [kind |-> "list", entries |-> es]

\* bug variant: a comparison that fails yields text all the same
git_diff_never_empty(br, rev_a, ref_b) == <<rev_a, get(br, ref_b)>>

\* git_diff: the empty text when git fails (a ref that does not exist), else
\* what git diff prints: nothing when the two commits have the same content,
\* otherwise the difference, named by the two commits
git_diff(br, rev_a, ref_b) ==
    IF ref_b \notin DOMAIN br THEN <<>>
    ELSE IF Content(agent_commits, rev_a) = Content(agent_commits, br[ref_b]) THEN <<>>
    ELSE <<rev_a, br[ref_b]>>

\* fetch_issue_text: the heading with the issue number, title and body; the
\* empty text when gh fails (fetch_fail) or its answer is no JSON object
fetch_issue_text(issue_id, fetch_fail) ==
    IF fetch_fail THEN <<>> ELSE <<"# Issue #", int(issue_id)>>

\* fetch_pr_text: the same for the pull request; gh fails as well for a
\* number that is no pull request of the repository
fetch_pr_text(pr_id, fetch_fail) ==
    IF fetch_fail THEN <<>>
    ELSE IF int(pr_id) \in DOMAIN remote.pulls /\ ~remote.pulls[int(pr_id)].found THEN <<>>
    ELSE <<"# PR #", int(pr_id)>>

\* build_one_row
build_one_row(wd, br, issue_id, pr_id, base_hash, human_hash, issue_fail, pr_fail) ==
    IF ~wd THEN [ok |-> FALSE, err |-> "repo not found", row |-> <<>>]
    ELSE IF base_hash = NoSha \/ human_hash = NoSha
    THEN [ok |-> FALSE, err |-> "missing base_hash or human_hash", row |-> <<>>]
    ELSE [ok |-> TRUE, err |-> "",
          row |-> [issue_text |-> fetch_issue_text(issue_id, issue_fail),
                   issue_id |-> issue_id,
                   pr_text |-> fetch_pr_text(pr_id, pr_fail),
                   pr_id |-> pr_id,
                   base_hash |-> base_hash, human_hash |-> human_hash,
                   pr_diff |-> git_diff(br, base_hash, BranchName(base_hash[1], "human")),
                   cursor_diff |-> git_diff(br, base_hash, BranchName(base_hash[1], "cursor")),
                   cursor_creative_diff |->
                       git_diff(br, base_hash, BranchName(base_hash[1], "cursor-creative"))]]

\* the file --pairs names: kind "absent", "notjson", "list" (a JSON list,
\* pairs) or "object" (a JSON object, pairs being what its key pairs or
\* issue_pr_pairs holds, the empty list without either)
PairsArg(kind, ps) == [kind |-> kind, pairs |-> ps]

\* load_pairs: open and json.load raise for a file that is missing or is no
\* JSON
load_pairs(file) ==
    IF file.kind \in {"list", "object"} THEN [raised |-> FALSE, pairs |-> file.pairs]
    ELSE [raised |-> TRUE, pairs |-> <<>>]

\* build_dataset.py main lines 243-259: the rows written for the pairs from
\* the k-th on; fails[k]: whether the fetch of the issue text and of the
\* pull-request text fails for the k-th pair
RECURSIVE build_dataset_rows(_, _, _, _, _)
build_dataset_rows(wd, br, ps, fails, k) ==
    IF k > Len(ps) THEN <<>>
    ELSE LET p == ps[k]
             base_hash == get(p, "base_hash")
             human_hash == get(p, "human_hash")
             res == build_one_row(wd, br, p.issue_id, p.pr_id, base_hash, human_hash,
                                  fails[k][1], fails[k][2])
             written == IF p.issue_id = None \/ p.pr_id = None THEN <<>>
                        ELSE IF base_hash = NoSha \/ human_hash = NoSha THEN <<>>
                        ELSE IF ~res.ok THEN <<>>
                        ELSE <<res.row>>
         IN  written \o build_dataset_rows(wd, br, ps, fails, k + 1)

(***************************************************************************)
(* main.py extract                                                         *)
(***************************************************************************)
LimitSet == {NoLimit, <<1>>, <<-1>>}

NoExtractData ==
    [ok |-> FALSE, err |-> "", data |-> [root_hash |-> NoSha, h |-> "", branches |-> <<>>]]

\* run_extract passes --autoc: nobody is asked
NoAnswer == [eof |-> TRUE, text |-> <<>>]

\* the prompt of apply-cursor was not shown
NotAsked == [asked |-> FALSE, eof |-> FALSE, text |-> <<>>]

\* the locals of an earlier apply-cursor command are gone
NoApplyCursor ==
    /\ to_apply' = <<>>
    /\ to_apply_at' = <<>>
    /\ loaded_cache' = <<>>
    /\ stdin' = NotAsked
    /\ reply' = <<>>
    /\ agent_failed' = <<>>

\* main.py resolve [--refresh] (lines 94-99): run_cmd starts resolve_pairs.py
\* and passes the flag on; the locals of an earlier command are gone
MainResolveStart(r) ==
    /\ DriverStopped
    /\ ResolverStopped
    /\ cmd' = "resolve"
    /\ limit' = NoLimit
    /\ pairs' = <<>>
    /\ idx' = 1
    /\ extract_entries' = <<>>
    /\ failed' = <<>>
    /\ extract_log' = <<>>
    /\ extract_data' = NoExtractData
    /\ entries' = <<>>
    /\ ResolverBegin(r, "resolve")
    /\ dpc' = "resolve_wait"
    /\ exit_status' = 0
    /\ NoApplyCursor
    /\ UNCHANGED <<remote, wvars, fvars, extract_cache, gvars, dataset, dataset_before>>

\* run_cmd (main.py lines 36-40) and main.py lines 100-101: the subprocess
\* ended; its non-zero status is passed on with sys.exit, else its output is
\* printed and main returns
MainResolveDone ==
    /\ dpc = "resolve_wait"
    /\ ResolverStopped
    /\ exit_status' = IF rpc = "done" THEN 0 ELSE 1
    /\ dpc' = "done"
    /\ UNCHANGED <<remote, avars, fvars, rvars, extract_cache, gvars, cmd, limit, pairs, idx,
                   extract_entries, failed, extract_log, extract_data, bvars>>

LoopBegin(ps, lim) ==
    /\ pairs' = ApplyLimit(ps, lim)
    /\ idx' = 1
    /\ extract_entries' = <<>>
    /\ failed' = <<>>
    /\ extract_log' = <<>>
    /\ extract_data' = NoExtractData
    /\ entries' = <<>>
    /\ dpc' = "extract_loop"

\* get_pairs_from_resolve, build_dataset.py lines 90-108: pairs from the
\* cache, or start resolve_pairs.py and wait for it; an exception of the
\* loader ends main.py with a traceback. The process has no pairs and no
\* loop locals yet (main.py lines 103-113, 182-190 bind them afterwards)
get_pairs_from_resolve(c, lim) ==
    IF load_pairs_from_cache(resolve_cache).ok
    THEN /\ LoopBegin(load_pairs_from_cache(resolve_cache).pairs, lim)
         /\ exit_status' = 0
         /\ UNCHANGED rvars
    ELSE /\ pairs' = <<>>
         /\ idx' = 1
         /\ extract_entries' = <<>>
         /\ failed' = <<>>
         /\ extract_log' = <<>>
         /\ extract_data' = NoExtractData
         /\ entries' = <<>>
         /\ IF load_pairs_from_cache(resolve_cache).raised
            THEN /\ dpc' = "crashed"
                 /\ exit_status' = 1
                 /\ UNCHANGED rvars
            ELSE /\ ResolverBegin(FALSE, c)
                 /\ dpc' = "extract_wait"
                 /\ exit_status' = 0

\* main.py lines 103-109 (extract) and 182-187 (all, when pairs.json is
\* there): the command gets its pairs
PairsStart(c, lim) ==
    /\ DriverStopped
    /\ ResolverStopped
    /\ limit' = lim
    /\ cmd' = c
    /\ get_pairs_from_resolve(c, lim)
    /\ NoApplyCursor
    /\ UNCHANGED <<remote, wvars, fvars, extract_cache, gvars, dataset, dataset_before>>

ExtractStart(lim) == PairsStart("extract", lim)

\* main.py lines 172-187: all starts resolve_pairs.py through run_cmd when
\* pairs.json is missing and waits for it; otherwise it gets its pairs at
\* once, as extract does
AllStart(lim) ==
    IF ~pairs_file.exists
    THEN /\ DriverStopped
         /\ ResolverStopped
         /\ limit' = lim
         /\ cmd' = "all"
         /\ pairs' = <<>>
         /\ idx' = 1
         /\ extract_entries' = <<>>
         /\ failed' = <<>>
         /\ extract_log' = <<>>
         /\ extract_data' = NoExtractData
         /\ entries' = <<>>
         /\ ResolverBegin(FALSE, "all")
         /\ dpc' = "all_resolve_wait"
         /\ exit_status' = 0
         /\ NoApplyCursor
         /\ UNCHANGED <<remote, wvars, fvars, extract_cache, gvars, dataset, dataset_before>>
    ELSE PairsStart("all", lim)

\* run_cmd (main.py lines 36-40) at line 180: the subprocess ended; its
\* non-zero status is passed on with sys.exit, without a traceback; after a
\* zero status all goes on to get its pairs (line 182)
AllResolved ==
    /\ dpc = "all_resolve_wait"
    /\ ResolverStopped
    /\ IF rpc # "done"
       THEN /\ dpc' = "done"
            /\ exit_status' = 1
            /\ UNCHANGED <<pairs, idx, extract_entries, failed, extract_log, extract_data,
                           entries, rvars>>
       ELSE get_pairs_from_resolve("all", limit)
    /\ UNCHANGED <<remote, avars, fvars, extract_cache, gvars, cmd, limit, dataset,
                   dataset_before>>

\* get_pairs_from_resolve, build_dataset.py lines 109-115: the subprocess
\* ended; a non-zero exit or a still missing cache raises RuntimeError
ExtractResolved ==
    /\ dpc = "extract_wait"
    /\ ResolverStopped
    /\ IF rpc = "done" /\ load_pairs_from_cache(resolve_cache).ok
       THEN /\ LoopBegin(load_pairs_from_cache(resolve_cache).pairs, limit)
            /\ UNCHANGED exit_status
       ELSE /\ dpc' = "crashed"
            /\ exit_status' = 1
            /\ UNCHANGED <<pairs, idx, extract_entries, failed, extract_log, extract_data,
                           entries>>
    /\ UNCHANGED <<remote, avars, fvars, rvars, extract_cache, gvars, cmd, limit,
                   dataset, dataset_before>>

\* main.py lines 110-125: one iteration of the loop, run_extract included
ExtractPair ==
    /\ dpc = "extract_loop"
    /\ idx <= Len(pairs)
    /\ idx' = idx + 1
    /\ LET issue_id == pairs[idx].issue_id
           pr_id == pairs[idx].pr_id
       IN  IF issue_id = None \/ pr_id = None
           THEN /\ failed' = Append(failed, [issue_id |-> issue_id, pr_id |-> pr_id,
                                             err |-> "missing issue_id or pr_id"])
                /\ UNCHANGED <<extract_entries, extract_log, extract_data, gvars>>
           ELSE \E pr_fail, issue_fail, clone_fail, blocked \in BOOLEAN :
                LET res == extract_main(int(issue_id), int(pr_id), TRUE, NoAnswer, pr_fail,
                                        issue_fail, clone_fail, blocked)
                IN  /\ extract_log' = Append(extract_log, <<int(issue_id), int(pr_id)>>)
                    /\ extract_data' = [ok |-> res.ok, err |-> res.err, data |-> res.data]
                    /\ work_dir' = res.work_dir
                    /\ branches' = res.branches
                    /\ head' = res.head
                    /\ IF ~res.ok
                       THEN /\ failed' = Append(failed, [issue_id |-> issue_id,
                                                 pr_id |-> pr_id, err |-> res.err])
                            /\ UNCHANGED extract_entries
                       ELSE /\ extract_entries' = Append(extract_entries,
                                   [issue_id |-> issue_id, pr_id |-> pr_id,
                                    base_hash |-> get(res.data, "base_hash"),
                                    merge_hash |-> get(res.data, "merge_hash"),
                                    branches |-> res.data.branches])
                            /\ UNCHANGED failed
    /\ UNCHANGED <<remote, avars, fvars, rvars, extract_cache, dpc, cmd, limit, pairs,
                   exit_status, bvars>>

\* main.py lines 126-133: save_extract_cache and the exit status
ExtractFinish ==
    /\ dpc = "extract_loop"
    /\ cmd = "extract"
    /\ idx > Len(pairs)
    /\ extract_cache' = save_extract_cache(extract_entries)
    /\ exit_status' = IF failed # <<>> THEN 1 ELSE 0
    /\ dpc' = "done"
    /\ UNCHANGED <<remote, avars, fvars, rvars, gvars, cmd, limit, pairs, idx, extract_entries,
                   failed, extract_log, extract_data, bvars>>

\* main.py lines 204-211 (all): save_extract_cache, then the dataset is
\* opened for writing and the build loop runs over this run's entries;
\* failed goes on to hold build_failed after the extract failures
AllExtractDone ==
    /\ dpc = "extract_loop"
    /\ cmd = "all"
    /\ idx > Len(pairs)
    /\ extract_cache' = save_extract_cache(extract_entries)
    /\ entries' = extract_entries
    /\ idx' = 1
    /\ dataset_before' = dataset
    /\ dataset' = [exists |-> TRUE, rows |-> <<>>]
    /\ dpc' = "build_loop"
    /\ UNCHANGED <<remote, avars, fvars, rvars, gvars, cmd, limit, pairs, extract_entries,
                   failed, exit_status, extract_log, extract_data>>

(***************************************************************************)
(* main.py build                                                           *)
(***************************************************************************)
\* main.py lines 135-145: the locals of an earlier command are gone
BuildStart(lim) ==
    /\ DriverStopped
    /\ ResolverStopped
    /\ limit' = lim
    /\ cmd' = "build"
    /\ pairs' = <<>>
    /\ extract_entries' = <<>>
    /\ extract_log' = <<>>
    /\ extract_data' = NoExtractData
    /\ failed' = <<>>
    /\ idx' = 1
    /\ IF load_extract_cache(extract_cache).raised
       THEN /\ dpc' = "crashed"
            /\ exit_status' = 1
            /\ entries' = <<>>
            /\ UNCHANGED <<dataset, dataset_before>>
       ELSE IF ~load_extract_cache(extract_cache).ok
          \/ load_extract_cache(extract_cache).entries = <<>>
       THEN /\ dpc' = "done"
            /\ exit_status' = 1
            /\ entries' = <<>>
            /\ UNCHANGED <<dataset, dataset_before>>
       ELSE /\ dpc' = "build_loop"
            /\ exit_status' = 0
            /\ entries' = ApplyLimit(load_extract_cache(extract_cache).entries, lim)
            /\ dataset_before' = dataset
            /\ dataset' = [exists |-> TRUE, rows |-> <<>>]
    /\ NoApplyCursor
    /\ UNCHANGED <<remote, wvars, fvars, rvars, extract_cache, gvars>>

\* main.py lines 146-162 (build) and 212-227 (all): one entry of the extract
\* cache
BuildEntry ==
    /\ dpc = "build_loop"
    /\ idx <= Len(entries)
    /\ idx' = idx + 1
    /\ \E issue_fail, pr_fail \in BOOLEAN :
       LET entry == entries[idx]
           issue_id == entry.issue_id
           pr_id == entry.pr_id
           base_hash == get(entry, "base_hash")
           merge_hash == IF get(entry, "merge_hash") # NoSha THEN get(entry, "merge_hash")
                         ELSE get(entry, "human_hash")
           res == build_one_row(work_dir, branches, issue_id, pr_id, base_hash, merge_hash,
                                issue_fail, pr_fail)
       IN  IF cmd = "all" /\ (base_hash = NoSha \/ get(entry, "merge_hash") = NoSha)
           THEN /\ failed' = Append(failed, [issue_id |-> issue_id, pr_id |-> pr_id,
                                             err |-> "missing hashes"])
                /\ UNCHANGED dataset
           ELSE IF cmd # "all" /\ (issue_id = None \/ pr_id = None \/ base_hash = NoSha
                                       \/ merge_hash = NoSha)
           THEN /\ failed' = Append(failed, [issue_id |-> issue_id, pr_id |-> pr_id,
                                             err |-> "incomplete cache entry"])
                /\ UNCHANGED dataset
           ELSE IF ~res.ok
           THEN /\ failed' = Append(failed, [issue_id |-> issue_id, pr_id |-> pr_id,
                                             err |-> res.err])
                /\ UNCHANGED dataset
           ELSE /\ dataset' = [dataset EXCEPT !.rows = Append(@, res.row)]
                /\ UNCHANGED failed
    /\ UNCHANGED <<remote, avars, fvars, rvars, extract_cache, gvars, dpc, cmd, limit, pairs,
                   extract_entries, exit_status, extract_log, extract_data, entries,
                   dataset_before>>

\* bug variant: the loop is left at the first failure
BuildFinish_at_first_failure ==
    /\ dpc = "build_loop"
    /\ idx > Len(entries) \/ failed # <<>>
    /\ exit_status' = IF cmd # "all" /\ failed # <<>> THEN 1 ELSE 0
    /\ dpc' = "done"
    /\ dataset_before' = [exists |-> FALSE, rows |-> <<>>]
    /\ UNCHANGED <<remote, avars, fvars, rvars, extract_cache, gvars, cmd, limit, pairs, idx,
                   extract_entries, failed, extract_log, extract_data, entries, dataset>>

\* main.py lines 163-170 (build) and 228-233 (all): all reports its
\* failures and ends without sys.exit
BuildFinish ==
    /\ dpc = "build_loop"
    /\ idx > Len(entries)
    /\ exit_status' = IF cmd # "all" /\ failed # <<>> THEN 1 ELSE 0
    /\ dpc' = "done"
    /\ dataset_before' = [exists |-> FALSE, rows |-> <<>>]
    /\ UNCHANGED <<remote, avars, fvars, rvars, extract_cache, gvars, cmd, limit, pairs, idx,
                   extract_entries, failed, extract_log, extract_data, entries, dataset>>

(***************************************************************************)
(* main.py apply-cursor                                                    *)
(***************************************************************************)
\* cursor_branches_exist, build_dataset.py lines 155-163
cursor_branches_exist(wd, br, h) ==
    /\ h # ""
    /\ wd
    /\ BranchName(h, "cursor") \in DOMAIN br
    /\ BranchName(h, "cursor-creative") \in DOMAIN br

\* main.py lines 244-248: entries the partition passes over
EntrySkipped(entry) ==
    entry.issue_id = None \/ entry.pr_id = None \/ get(entry, "base_hash") = NoSha

\* entry.get("branches") or {} (main.py line 250): an entry need not have
\* the object
BranchesOf(entry) == IF "branches" \in DOMAIN entry THEN entry.branches ELSE <<>>

\* main.py lines 249-254
EntryHasCursor(entry, wd, br) ==
    LET h == entry.base_hash[1]
    IN  \/ /\ get(BranchesOf(entry), BranchName(h, "cursor")) # NoSha
           /\ get(BranchesOf(entry), BranchName(h, "cursor-creative")) # NoSha
        \/ cursor_branches_exist(wd, br, h)

has_cursor(es, wd, br) ==
    LET Test(entry) == ~EntrySkipped(entry) /\ EntryHasCursor(entry, wd, br)
    IN  SelectSeq(es, Test)

no_cursor(es, wd, br) ==
    LET Test(entry) == ~EntrySkipped(entry) /\ ~EntryHasCursor(entry, wd, br)
    IN  SelectSeq(es, Test)

\* bug variant: every answer counts as consent
read_reply_any(answer) == <<121>>

\* main.py lines 264-267: input(...).strip().lower(), "n" (110) on EOFError;
\* the reply is then compared with "y" (121)
read_reply(answer) == IF answer.eof THEN <<110>> ELSE lower(strip(answer.text))

\* main.py lines 235-281: load the cache, partition, ask, cut to --limit.
\* The elements of no_cursor and of to_apply are the entries of the loaded
\* cache themselves (lines 256, 272-274), not copies: to_apply_at keeps the
\* position each of them has in the loaded cache.  Nothing is typed when the
\* prompt is not shown
ApplyCursorStart(lim, answer) ==
    /\ DriverStopped
    /\ ResolverStopped
    /\ limit' = lim
    /\ cmd' = "apply-cursor"
    /\ pairs' = <<>>
    /\ extract_entries' = <<>>
    /\ extract_log' = <<>>
    /\ extract_data' = NoExtractData
    /\ failed' = <<>>
    /\ entries' = <<>>
    /\ idx' = 1
    /\ agent_failed' = <<>>
    /\ LET loaded == load_extract_cache(extract_cache)
           has == has_cursor(loaded.entries, work_dir, branches)
           no == no_cursor(loaded.entries, work_dir, branches)
           InNoCursor(k) == ~EntrySkipped(loaded.entries[k])
                                /\ ~EntryHasCursor(loaded.entries[k], work_dir, branches)
           no_at == SelectSeq([k \in 1..Len(loaded.entries) |-> k], InNoCursor)
       IN  /\ attempts + Len(ApplyLimit(no, lim)) <= MaxAgentRuns
           /\ (has # <<>> /\ no # <<>>) \/ answer = NoAnswer
           /\ loaded_cache' = loaded.entries
           /\ IF ~loaded.ok \/ loaded.entries = <<>>
              THEN /\ dpc' = IF loaded.raised THEN "crashed" ELSE "done"
                   /\ exit_status' = 1
                   /\ to_apply' = <<>>
                   /\ to_apply_at' = <<>>
                   /\ stdin' = NotAsked
                   /\ reply' = <<>>
              ELSE IF no = <<>> /\ has # <<>>
              THEN /\ dpc' = "done"
                   /\ exit_status' = 0
                   /\ to_apply' = <<>>
                   /\ to_apply_at' = <<>>
                   /\ stdin' = NotAsked
                   /\ reply' = <<>>
              ELSE IF has # <<>> /\ no # <<>> /\ read_reply(answer) # <<121>>
              THEN /\ dpc' = "done"
                   /\ exit_status' = 0
                   /\ to_apply' = <<>>
                   /\ to_apply_at' = <<>>
                   /\ stdin' = [asked |-> TRUE, eof |-> answer.eof, text |-> answer.text]
                   /\ reply' = read_reply(answer)
              ELSE /\ dpc' = "apply_loop"
                   /\ exit_status' = 0
                   /\ to_apply' = ApplyLimit(no, lim)
                   /\ to_apply_at' = ApplyLimit(no_at, lim)
                   /\ stdin' = IF has # <<>> /\ no # <<>>
                               THEN [asked |-> TRUE, eof |-> answer.eof, text |-> answer.text]
                               ELSE NotAsked
                   /\ reply' = IF has # <<>> /\ no # <<>> THEN read_reply(answer) ELSE <<>>
    /\ UNCHANGED <<remote, wvars, fvars, rvars, extract_cache, gvars, dataset, dataset_before>>

\* main.py lines 277-281 and 317-321: the entry of the loaded cache that
\* entry_lookup holds for a key, the last one with that key
EntryLookup(es, issue_id, pr_id) ==
    LET found == {k \in 1..Len(es) : es[k].issue_id = issue_id /\ es[k].pr_id = pr_id}
    IN  IF found = {} THEN 0 ELSE CHOOSE k \in found : \A j \in found : j <= k

\* main.py lines 292-321: git rev-parse of the two agent snapshots, written
\* into the branches object of the entry when the entry has one
WithCursorHashes(es, issue_id, pr_id, h, br) ==
    LET k == EntryLookup(es, issue_id, pr_id)
    IN  IF k = 0 THEN es
        ELSE IF "branches" \notin DOMAIN es[k] THEN es
        ELSE [es EXCEPT ![k].branches =
                 SetBranch(SetBranch(@, BranchName(h, "cursor"),
                                     get(br, BranchName(h, "cursor"))),
                           BranchName(h, "cursor-creative"),
                           get(br, BranchName(h, "cursor-creative")))]

\* main.py lines 283-322: one pair of to_apply, run_agent_change included.
\* The hashes are written into an entry of the loaded cache (lines 316-321);
\* the elements of to_apply are entries of that cache, so the one that is
\* this entry shows them too
ApplyCursorEntry ==
    /\ dpc = "apply_loop"
    /\ idx <= Len(to_apply)
    /\ idx' = idx + 1
    /\ \E env \in AgentEnvSet :
       LET entry == to_apply[idx]
           h == entry.base_hash[1]
           res == agent_change_main(int(entry.issue_id), h, env)
           updated == WithCursorHashes(loaded_cache, entry.issue_id, entry.pr_id, h,
                                       res.branches)
       IN  /\ AgentChangeRun(h, res)
           /\ IF ~res.ok
              THEN /\ agent_failed' = Append(agent_failed, <<entry.issue_id, entry.pr_id>>)
                   /\ UNCHANGED <<loaded_cache, to_apply>>
              ELSE /\ loaded_cache' = updated
                   /\ to_apply' = [j \in 1..Len(to_apply) |-> updated[to_apply_at[j]]]
                   /\ UNCHANGED agent_failed
    /\ UNCHANGED <<remote, fvars, rvars, extract_cache, dpc, cmd, limit, pairs,
                   extract_entries, failed, exit_status, extract_log, extract_data, bvars,
                   to_apply_at, stdin, reply>>

\* main.py lines 324-326: save_extract_cache; main returns
ApplyCursorFinish ==
    /\ dpc = "apply_loop"
    /\ idx > Len(to_apply)
    /\ extract_cache' = save_extract_cache(loaded_cache)
    /\ exit_status' = 0
    /\ dpc' = "done"
    /\ UNCHANGED <<remote, avars, fvars, rvars, gvars, cmd, limit, pairs, idx,
                   extract_entries, failed, extract_log, extract_data, bvars>>

\* agent_change.py started from the command line for the snapshots h
AgentChangeCli(h, env) ==
    /\ DriverStopped
    /\ ResolverStopped
    /\ attempts < MaxAgentRuns
    /\ AgentChangeRun(h, agent_change_main(0, h, env))
    /\ UNCHANGED <<remote, cvars, fvars, rvars, extract_cache, dvars, bvars>>

\* what is typed at a clone prompt, which is shown only when the working
\* copy is missing
Asked(shown) == IF shown THEN CloneAnswerSet ELSE {NoAnswer}

\* what can go wrong outside the script in one run of it: nothing, or one of
\* the calls
ExtractCourses ==
    {c \in [pr_fail : BOOLEAN, issue_fail : BOOLEAN, clone_fail : BOOLEAN,
             blocked : BOOLEAN] :
        Cardinality({f \in {"pr_fail", "issue_fail", "clone_fail", "blocked"} : c[f]}) <= 1}

\* whether the fetch of the issue text fails and whether that of the
\* pull-request text does: two gh calls, each caught on its own
FetchCourses == BOOLEAN \X BOOLEAN

\* features/extract.py started from the command line, with or without
\* --autoc: the snapshots are made, no cache file is written
ExtractCli(issue_num, pr_num, autoc, answer) ==
    /\ DriverStopped
    /\ ResolverStopped
    /\ answer \in Asked(~work_dir /\ ~autoc)
    /\ \E c \in ExtractCourses :
       LET res == extract_main(issue_num, pr_num, autoc, answer, c.pr_fail, c.issue_fail,
                               c.clone_fail, c.blocked)
       IN  /\ work_dir' = res.work_dir
           /\ branches' = res.branches
           /\ head' = res.head
    /\ UNCHANGED <<remote, avars, fvars, rvars, extract_cache, dvars, bvars>>

\* src/extract.py started from the command line: the four snapshots and
\* the two agent invocations of one pair, no cache file is written
LegacyExtractCli(issue_num, pr_num, answer, env) ==
    /\ DriverStopped
    /\ ResolverStopped
    /\ attempts < MaxAgentRuns
    /\ answer \in Asked(~work_dir)
    /\ \E pr_fail \in BOOLEAN, clone_fail \in {FALSE} \cup {~work_dir} :
       LET res == legacy_extract_main(issue_num, pr_num, answer, env, pr_fail, clone_fail)
       IN  /\ attempts' = attempts + 1
           /\ work_dir' = res.work_dir
           /\ branches' = res.git.branches
           /\ head' = res.git.head
           /\ dirty' = res.git.dirty
           /\ agent_commits' = res.git.commits
           /\ agent_log' = res.git.log
           /\ agent_err' = res.git.err
    /\ UNCHANGED <<remote, agent_h, cvars, fvars, rvars, extract_cache, dvars, bvars>>

\* features/build_dataset.py started from the command line with --pairs
\* (and --limit): the output is opened for writing and gets one row for
\* each pair that has its identifiers and hashes; the script ends with
\* status 0 whatever failed, and needs no extract cache
BuildDatasetCli(file, lim) ==
    /\ DriverStopped
    /\ ResolverStopped
    /\ IF load_pairs(file).raised
       THEN UNCHANGED dataset
       ELSE LET ps == ApplyLimit(load_pairs(file).pairs, lim)
            IN  \E fails \in [1..Len(ps) -> FetchCourses] :
                    dataset' = [exists |-> TRUE,
                                rows |-> build_dataset_rows(work_dir, branches, ps, fails, 1)]
    /\ UNCHANGED <<remote, avars, fvars, rvars, extract_cache, gvars, dvars, entries,
                   dataset_before>>

(***************************************************************************)
(* Specifications                                                          *)
(***************************************************************************)
InitResolver ==
    /\ rpc = "idle"
    /\ caller = "cli"
    /\ refresh = FALSE
    /\ remote_calls = 0
    /\ src_failed = {}
    /\ pr_nodes = <<>>
    /\ pr_pairs = {}
    /\ max_valid_id = NoMaxId
    /\ issue_nodes = <<>>
    /\ issue_pairs = {}
    /\ changelog_nums = {}
    /\ all_pairs = {}
    /\ merged = {}

InitLocals ==
    /\ dpc = "idle"
    /\ cmd = "none"
    /\ limit = NoLimit
    /\ pairs = <<>>
    /\ idx = 1
    /\ extract_entries = <<>>
    /\ failed = <<>>
    /\ exit_status = 0
    /\ extract_log = <<>>
    /\ extract_data = NoExtractData
    /\ entries = <<>>
    /\ dataset = [exists |-> FALSE, rows |-> <<>>]
    /\ dataset_before = [exists |-> FALSE, rows |-> <<>>]
    /\ dirty = {}
    /\ agent_commits = <<>>
    /\ attempts = 0
    /\ agent_h = ""
    /\ agent_log = <<>>
    /\ agent_err = ""
    /\ to_apply = <<>>
    /\ to_apply_at = <<>>
    /\ loaded_cache = <<>>
    /\ stdin = NotAsked
    /\ reply = <<>>
    /\ agent_failed = <<>>

\* no working copy yet, or a fresh clone on its default branch
InitDriver ==
    /\ InitLocals
    /\ branches = <<>>
    /\ head = BranchName("", "main")

\* the resolver alone, over every remote in RemoteSet, starting without cache
InitResolve ==
    /\ remote \in RemoteSet
    /\ resolve_cache = CacheAbsent
    /\ pairs_file = [exists |-> FALSE, pairs |-> <<>>]
    /\ cache_writer = "preexisting"
    /\ work_dir = FALSE
    /\ extract_cache = ExtractCacheAbsent
    /\ InitResolver
    /\ InitDriver

NextResolve ==
    \/ \E r \in BOOLEAN : ResolveStart(r)
    \/ FetchMergedPRs
    \/ FetchClosedIssues
    \/ FetchChangelog
    \/ MergeAndWrite

SpecResolve == InitResolve /\ [][NextResolve]_vars

\* the whole pipeline: no cache or the hand-written cache of the end-to-end
\* scenario, with or without a working copy
Init ==
    /\ remote \in PipelineRemoteSet
    /\ resolve_cache \in {CacheAbsent, PairsOnlyCache}
    /\ pairs_file = [exists |-> FALSE, pairs |-> <<>>]
    /\ cache_writer = "preexisting"
    /\ work_dir \in BOOLEAN
    /\ extract_cache = ExtractCacheAbsent
    /\ InitResolver
    /\ InitDriver

Next ==
    \/ \E r \in BOOLEAN : ResolveStart(r)
    \/ FetchMergedPRs
    \/ FetchClosedIssues
    \/ FetchChangelog
    \/ MergeAndWrite
    \/ \E lim \in LimitSet : ExtractStart(lim)
    \/ ExtractResolved
    \/ ExtractPair
    \/ ExtractFinish
    \/ \E lim \in LimitSet : BuildStart(lim)
    \/ BuildEntry
    \/ BuildFinish

Spec == Init /\ [][Next]_vars

\* the pipeline over one remote and every content of the two cache files
CacheFileSet ==
    {CacheAbsent, PairsOnlyCache, GoodCache,
     CacheObject(TRUE, <<[issue_id |-> 7, pr_id |-> None, self_pair |-> FALSE]>>, FALSE, NoRefs)}
        \cup MalformedCacheSet

\* a well-formed extract cache whose entry has both identifiers
ExtractCacheComplete ==
    [kind |-> "list",
     entries |-> <<[issue_id |-> 7, pr_id |-> 9, base_hash |-> Root, merge_hash |-> Merge1,
                    branches |-> <<>>]>>]

ExtractCacheFileSet ==
    {ExtractCacheAbsent, ExtractCacheNotJson, ExtractCacheNotUtf8, ExtractCacheNoList,
     ExtractCacheComplete}

CachesRemote ==
    [prs |-> <<[number |-> 100, closing |-> {1}]>>, issues |-> <<>>, changelog |-> {},
     pulls |-> PullsDefault]

InitCaches ==
    /\ remote = CachesRemote
    /\ resolve_cache \in CacheFileSet
    /\ pairs_file = [exists |-> FALSE, pairs |-> <<>>]
    /\ cache_writer = "preexisting"
    /\ work_dir \in BOOLEAN
    /\ extract_cache \in ExtractCacheFileSet
    /\ InitResolver
    /\ InitDriver

SpecCaches == InitCaches /\ [][Next]_vars

\* the same with main.py all and main.py resolve
NextAll ==
    \/ Next
    \/ \E r \in BOOLEAN : MainResolveStart(r)
    \/ MainResolveDone
    \/ \E lim \in LimitSet : AllStart(lim)
    \/ AllResolved
    \/ AllExtractDone

SpecAll == InitCaches /\ [][NextAll]_vars

\* the agent stage: a working copy in which extract.py has made the snapshots
\* of one or of two pairs, and an extract cache in the format main.py build
\* and apply-cursor read (issue_id, pr_id, base_hash, merge_hash, branches)
AgentPairsCache ==
    CacheObject(TRUE, <<[issue_id |-> 1, pr_id |-> 100, self_pair |-> FALSE],
                        [issue_id |-> 100, pr_id |-> 600, self_pair |-> FALSE]>>,
                FALSE, NoRefs)

AgentRemote ==
    [prs |-> <<[number |-> 600, closing |-> {100}], [number |-> 100, closing |-> {1}]>>,
     issues |-> <<>>, changelog |-> {}, pulls |-> PullsDefault]

SnapshotsOf(merge_sha) ==
    [n \in {BranchName(base_sha_of(merge_sha)[1], "base"),
            BranchName(base_sha_of(merge_sha)[1], "human")} |->
        IF n[2] = "base" THEN base_sha_of(merge_sha) ELSE merge_sha]

EntryOf(issue_id, pr_id, merge_sha) ==
    [issue_id |-> issue_id, pr_id |-> pr_id, base_hash |-> base_sha_of(merge_sha),
     merge_hash |-> merge_sha, branches |-> SnapshotsOf(merge_sha)]

\* an entry as the docstrings of load_extract_cache and save_extract_cache
\* describe it: {issue_id, pr_id, base_hash, human_hash, merge_hash}
PlainEntryOf(issue_id, pr_id, merge_sha) ==
    [issue_id |-> issue_id, pr_id |-> pr_id, base_hash |-> base_sha_of(merge_sha),
     human_hash |-> merge_sha, merge_hash |-> merge_sha]

InitOnePairPlain ==
    /\ branches = SnapshotsOf(Merge1)
    /\ head = BranchName(Root[1], "base")
    /\ extract_cache = save_extract_cache(<<PlainEntryOf(1, 100, Merge1)>>)

InitOnePair ==
    /\ branches = SnapshotsOf(Merge1)
    /\ head = BranchName(Root[1], "base")
    /\ extract_cache = save_extract_cache(<<EntryOf(1, 100, Merge1)>>)

InitTwoPairs ==
    /\ branches = SnapshotsOf(Merge1) @@ SnapshotsOf(Squash1)
    /\ head = BranchName(Merge1[1], "base")
    /\ extract_cache = save_extract_cache(<<EntryOf(1, 100, Merge1),
                                               EntryOf(100, 600, Squash1)>>)

InitAgent ==
    /\ remote = AgentRemote
    /\ resolve_cache = AgentPairsCache
    /\ pairs_file = [exists |-> FALSE, pairs |-> <<>>]
    /\ cache_writer = "preexisting"
    /\ InitResolver
    /\ InitLocals
    /\ work_dir = TRUE
    /\ \/ InitOnePair
       \/ InitOnePairPlain
       \/ InitTwoPairs

\* apply-cursor and agent_change.py from the command line, over the working
\* copy of one pair and of two pairs
NextAgent ==
    \/ \E lim \in LimitSet, answer \in AnswerSet : ApplyCursorStart(lim, answer)
    \/ ApplyCursorEntry
    \/ ApplyCursorFinish
    \/ \E h \in {Root[1], Merge1[1]}, env \in AgentEnvSet : AgentChangeCli(h, env)

SpecAgent == InitAgent /\ [][NextAgent]_vars

\* a project in which nothing was run yet
InitFresh ==
    /\ work_dir = FALSE
    /\ branches = <<>>
    /\ head = BranchName("", "main")
    /\ extract_cache = ExtractCacheAbsent

\* every stage after the resolver, from the working copy of one pair
InitStages ==
    /\ remote = AgentRemote
    /\ resolve_cache = AgentPairsCache
    /\ pairs_file = [exists |-> FALSE, pairs |-> <<>>]
    /\ cache_writer = "preexisting"
    /\ InitResolver
    /\ InitLocals
    /\ work_dir = TRUE
    /\ InitOnePair

\* the pair the scripts are given on the command line
CliPairs == {<<1, 100>>}

\* the files --pairs names: missing; one pair with its hashes; a pair whose
\* identifier is a string of digits and a pair without hashes; a pair
\* without pr_id, inside an object
PairsArgSet ==
    {PairsArg("absent", <<>>),
     PairsArg("list", <<[issue_id |-> 1, pr_id |-> 100, base_hash |-> Root,
                         human_hash |-> Merge1]>>),
     PairsArg("list", <<[issue_id |-> Str(1), pr_id |-> 100, base_hash |-> Root,
                         human_hash |-> Merge1],
                        [issue_id |-> 100, pr_id |-> 600]>>),
     PairsArg("object", <<[issue_id |-> 7, pr_id |-> None, base_hash |-> Root,
                           human_hash |-> Merge1]>>)}

\* the scripts run by hand, one after the other, and main.py build: from a
\* fresh project or from the working copy of one pair
InitScripts ==
    /\ remote = AgentRemote
    /\ resolve_cache = AgentPairsCache
    /\ pairs_file = [exists |-> FALSE, pairs |-> <<>>]
    /\ cache_writer = "preexisting"
    /\ InitResolver
    /\ InitLocals
    /\ \/ work_dir = TRUE /\ InitOnePair
       \/ InitFresh

NextScripts ==
    \/ \E p \in CliPairs, autoc \in BOOLEAN, answer \in CloneAnswerSet \cup {NoAnswer} :
          ExtractCli(p[1], p[2], autoc, answer)
    \/ \E p \in CliPairs, answer \in CloneAnswerSet \cup {NoAnswer}, env \in AgentEnvSet :
          LegacyExtractCli(p[1], p[2], answer, env)
    \/ \E file \in PairsArgSet, lim \in LimitSet : BuildDatasetCli(file, lim)
    \/ \E lim \in LimitSet : BuildStart(lim)
    \/ BuildEntry
    \/ BuildFinish

SpecScripts == InitScripts /\ [][NextScripts]_vars

\* extract, apply-cursor and build as main.py runs them, build with and
\* without --limit
NextBuild ==
    \/ ExtractStart(NoLimit)
    \/ ExtractPair
    \/ ExtractFinish
    \/ \E answer \in AnswerSet : ApplyCursorStart(NoLimit, answer)
    \/ ApplyCursorEntry
    \/ ApplyCursorFinish
    \/ \E lim \in LimitSet : BuildStart(lim)
    \/ BuildEntry
    \/ BuildFinish

SpecBuild == InitStages /\ [][NextBuild]_vars

\* the batch commands over a pair list of two: the pull requests differ, or
\* the first pair lacks an identifier, or both pairs name the same pull
\* request, or the base commits of the two pull requests begin alike, or an
\* identifier is a string of digits
BatchPulls == [PullsDefault EXCEPT ![9] = Pull(Squash2)]

BatchPairsSet ==
    {<<[issue_id |-> 1, pr_id |-> 100, self_pair |-> FALSE],
       [issue_id |-> 100, pr_id |-> 600, self_pair |-> FALSE]>>,
     <<[issue_id |-> 7, pr_id |-> None, self_pair |-> FALSE],
       [issue_id |-> 100, pr_id |-> 600, self_pair |-> FALSE]>>,
     <<[issue_id |-> 1, pr_id |-> 100, self_pair |-> FALSE],
       [issue_id |-> 7, pr_id |-> 100, self_pair |-> FALSE]>>,
     <<[issue_id |-> 1, pr_id |-> 100, self_pair |-> FALSE],
       [issue_id |-> 7, pr_id |-> 9, self_pair |-> FALSE]>>,
     <<[issue_id |-> 7, pr_id |-> Str(9), self_pair |-> FALSE]>>}

\* the extract cache is missing, or was written by hand in the format
\* main.py build reads, its first entry without base_hash
BatchExtractCache ==
    save_extract_cache(<<[issue_id |-> 1, pr_id |-> 100, merge_hash |-> Merge1,
                          branches |-> <<>>],
                        EntryOf(100, 600, Squash1)>>)

\* an extract cache written by hand whose identifiers are strings of digits
BatchExtractCacheStr ==
    save_extract_cache(<<EntryOf(Str(1), 100, Merge1), EntryOf(100, Str(600), Squash1)>>)

\* the pair lists are in place (pairs.json and the resolve cache hold the
\* same list), or the resolver has not run yet and GitHub has two merged
\* pull requests
InitBatch ==
    /\ remote = [prs |-> <<[number |-> 600, closing |-> {100}],
                           [number |-> 100, closing |-> {1}]>>,
                 issues |-> <<>>, changelog |-> {}, pulls |-> BatchPulls]
    /\ \/ \E ps \in BatchPairsSet :
             /\ resolve_cache = CacheObject(TRUE, ps, FALSE, NoRefs)
             /\ pairs_file = [exists |-> TRUE, pairs |-> ps]
       \/ /\ resolve_cache = CacheAbsent
          /\ pairs_file = [exists |-> FALSE, pairs |-> <<>>]
    /\ cache_writer = "preexisting"
    /\ work_dir \in BOOLEAN
    /\ extract_cache \in {ExtractCacheAbsent, BatchExtractCache, BatchExtractCacheStr}
    /\ InitResolver
    /\ InitDriver

NextBatch ==
    \/ FetchMergedPRs
    \/ FetchClosedIssues
    \/ FetchChangelog
    \/ MergeAndWrite
    \/ \E lim \in LimitSet : ExtractStart(lim)
    \/ ExtractResolved
    \/ ExtractPair
    \/ ExtractFinish
    \/ \E lim \in LimitSet : AllStart(lim)
    \/ AllResolved
    \/ AllExtractDone
    \/ \E lim \in LimitSet : BuildStart(lim)
    \/ BuildEntry
    \/ BuildFinish

SpecBatch == InitBatch /\ [][NextBatch]_vars

TypeOK == rpc \in {"idle", "src1", "src2", "src3", "merge", "done", "crashed"}

(***************************************************************************)
(* Claims about the resolver                                               *)
(***************************************************************************)
\* the pair list the resolver wrote, as a set of <<issue_id, pr_id>>
WrittenPairs ==
    {<<resolve_cache.pairs[k].issue_id, resolve_cache.pairs[k].pr_id>> :
        k \in 1..Len(resolve_cache.pairs)}

ResolverWrote == cache_writer = "resolver"

\* the resolver ran to its end in this invocation (it did not use the cache)
ResolvedNow == rpc = "done" /\ remote_calls > 0

Implausible(x) == x[1] # x[2] /\ x[1] < 50 /\ x[2] - x[1] > 500

\* C1: in the pair set the resolver wrote, a pull request with a real pair
\* (i, p), i # p, has no self-pair (p, p)
C1_RealSupersedesSelf ==
    ResolverWrote =>
        \A x \in WrittenPairs : x[1] # x[2] => <<x[2], x[2]>> \notin WrittenPairs

\* C1 case: a self-pair (p, p) and a real pair (i, p) were both merged and the
\* list was written
C1_Witness ==
    /\ ResolvedNow
    /\ \E x \in all_pairs : /\ x[1] # x[2]
                            /\ <<x[2], x[2]>> \in all_pairs
                            /\ x \in WrittenPairs

\* C2: the pair set the resolver wrote holds no pair (i, p) with i # p,
\* i < 50 and p - i > 500
C2_NoImplausiblePair ==
    ResolverWrote => \A x \in WrittenPairs : ~Implausible(x)

\* C2 case: the sources produced an implausible pair and the list was written
C2_Witness ==
    ResolvedNow /\ \E x \in all_pairs : Implausible(x)

\* C3: the pair list the resolver wrote has no two entries with the same
\* (issue_id, pr_id)
C3_NoDuplicatePair ==
    ResolverWrote =>
        \A a, b \in 1..Len(resolve_cache.pairs) :
            (/\ resolve_cache.pairs[a].issue_id = resolve_cache.pairs[b].issue_id
             /\ resolve_cache.pairs[a].pr_id = resolve_cache.pairs[b].pr_id) => a = b

\* C3 case: the merged-PR source and the closed-issue source report the same
\* pair, which is written
C3_Witness ==
    ResolvedNow /\ \E x \in pr_pairs \cap issue_pairs : x \in WrittenPairs

IntLinked(node) == {iid \in node.closing : IsInt(iid)}

\* C5: for every merged pull request p the pairs with pr_id p are one pair per
\* linked issue, or the self-pair alone when no issue is linked; no pair is
\* emitted for a number that is no merged pull request
C5_PairsFromMergedPrs ==
    /\ \A k \in 1..Len(pr_nodes) :
          IsInt(pr_nodes[k].number) =>
              {x \in pr_pairs : x[2] = pr_nodes[k].number} =
                  IF IntLinked(pr_nodes[k]) # {}
                  THEN {<<i, pr_nodes[k].number>> : i \in IntLinked(pr_nodes[k])}
                  ELSE {<<pr_nodes[k].number, pr_nodes[k].number>>}
    /\ \A x \in pr_pairs : \E k \in 1..Len(pr_nodes) : pr_nodes[k].number = x[2]

\* C5 case: one pull request with two linked issues and one with none
C5_Witness ==
    /\ \E k \in 1..Len(pr_nodes) :
          IsInt(pr_nodes[k].number) /\ Cardinality(IntLinked(pr_nodes[k])) = 2
    /\ \E k \in 1..Len(pr_nodes) :
          IsInt(pr_nodes[k].number) /\ IntLinked(pr_nodes[k]) = {}
    /\ Cardinality(pr_pairs) = 3

MergedCloser(node, p) ==
    \E e \in 1..Len(node.events) :
        node.events[e].number = p /\ node.events[e].merged

\* C6: for every closed issue i, (i, p) is emitted exactly when a closing
\* event of i names the merged pull request p; nothing else is emitted
C6_PairsFromClosedIssues ==
    /\ \A k \in 1..Len(issue_nodes) : \A p \in PrNumbers \cup IssueNumbers :
          IsInt(issue_nodes[k].number) =>
              (<<issue_nodes[k].number, p>> \in issue_pairs
                   <=> MergedCloser(issue_nodes[k], p))
    /\ \A x \in issue_pairs :
          \E k \in 1..Len(issue_nodes) :
              issue_nodes[k].number = x[1] /\ MergedCloser(issue_nodes[k], x[2])

\* C6 case: an issue closed by a merged pull request (a pair is emitted)
C6_Witness ==
    \E k \in 1..Len(issue_nodes) : \E p \in PrNumbers :
        /\ IsInt(issue_nodes[k].number)
        /\ MergedCloser(issue_nodes[k], p)
        /\ <<issue_nodes[k].number, p>> \in issue_pairs

\* C6 case: an issue whose closer is an unmerged pull request (nothing emitted)
C6_WitnessUnmerged ==
    \E k \in 1..Len(issue_nodes) : \E e \in 1..Len(issue_nodes[k].events) :
        /\ IsInt(issue_nodes[k].number)
        /\ IsInt(issue_nodes[k].events[e].number)
        /\ ~issue_nodes[k].events[e].merged
        /\ rpc = "src3"

SourceIds == {x[1] : x \in pr_pairs \cup issue_pairs} \cup {x[2] : x \in pr_pairs \cup issue_pairs}

\* the changelog number n was added as a self-pair by the supplement
Added(n) == <<n, n>> \in all_pairs \ (pr_pairs \cup issue_pairs)

\* n is at or below the highest merged pull-request number (false when the
\* merged-PR source returned no pull request)
AtOrBelowHighestPr(n) ==
    \E k \in 1..Len(pr_nodes) : IsInt(pr_nodes[k].number) /\ n <= pr_nodes[k].number

\* C7 as claimed: a changelog number is added as a self-pair exactly when it is
\* in no pair of the two sources and at or below the highest known
\* pull-request number, for every set of merged pull requests
C7_AsClaimed ==
    ResolvedNow =>
        \A n \in changelog_nums : Added(n) <=> (n \notin SourceIds /\ AtOrBelowHighestPr(n))

\* C7 amended: a changelog number n is added as a self-pair exactly when
\* n >= 1, n is in no pair of the two sources and n <= max_valid_id, which is
\* the highest merged pull-request number, or 99999 when there is none
C7_ChangelogSupplement ==
    ResolvedNow =>
        /\ max_valid_id = IF \E k \in 1..Len(pr_nodes) : IsInt(pr_nodes[k].number)
                          THEN SetMax({pr_nodes[k].number : k \in
                                   {x \in 1..Len(pr_nodes) : IsInt(pr_nodes[x].number)}})
                          ELSE 99999
        /\ \A n \in changelog_nums :
              Added(n) <=> (n >= 1 /\ n \notin SourceIds /\ n <= max_valid_id)
        /\ \A x \in all_pairs \ (pr_pairs \cup issue_pairs) :
              x[1] = x[2] /\ x[1] \in changelog_nums

\* C7 case: one changelog number is added and another is above the bound
C7_Witness ==
    /\ ResolvedNow
    /\ \E n \in changelog_nums : Added(n)
    /\ \E n \in changelog_nums : n > max_valid_id /\ ~Added(n)

\* C8 as claimed: once a completed run wrote the cache, an invocation without
\* --refresh never gets to a remote call (nor to the write that follows them)
C8_CacheUsedUnlessRefresh ==
    (ResolverWrote /\ ~refresh) => rpc \notin {"src1", "src2", "src3", "merge"}

\* the pair set the three sources give when the sources in src_failed count
\* as empty
PairsOfSucceeded ==
    LET prs == IF "prs" \in src_failed THEN <<>> ELSE remote.prs
        iss == IF "issues" \in src_failed THEN <<>> ELSE remote.issues
        chl == IF "changelog" \in src_failed THEN {} ELSE remote.changelog
    IN  main_promote(main_drop_implausible(
            main_supplement(build_pairs_from_merged_prs(prs),
                            build_pairs_from_closed_issues(iss),
                            chl, main_max_valid_id(prs))))

\* C10 as claimed: whichever fetches fail, the resolver ends normally and has
\* written the pair set of the sources that succeeded
C10_FetchFailureNotFatal ==
    /\ rpc # "crashed"
    /\ (ResolvedNow => WrittenPairs = PairsOfSucceeded)
(***************************************************************************)
(* Claims about the driver's extract stage and the cache loaders           *)
(***************************************************************************)
IdsOf(ps) == [k \in 1..Len(ps) |-> <<ps[k].issue_id, ps[k].pr_id>>]

\* C4: the pair list the resolver wrote ascends lexicographically by
\* (issue_id, pr_id); the extract stage works on a prefix of that list and has
\* announced exactly the pairs before the one it is at, in the list's order
C4_SortedAndProcessedInOrder ==
    /\ ResolverWrote =>
          \A a, b \in 1..Len(resolve_cache.pairs) :
              a < b => TupleLess(IdsOf(resolve_cache.pairs)[a], IdsOf(resolve_cache.pairs)[b])
    /\ (ResolverWrote /\ dpc = "extract_loop") =>
          /\ pairs = ApplyLimit(resolve_cache.pairs, limit)
          /\ extract_log = SubSeq(IdsOf(resolve_cache.pairs), 1, idx - 1)

\* C4 case: the sources gave the pairs in another order than the sorted one
\* and the extract stage has gone through two of them
C4_Witness ==
    /\ ResolverWrote
    /\ dpc = "extract_loop"
    /\ idx = 3
    /\ Len(extract_log) = 2
    /\ \E k \in 1..Len(pr_nodes) : \E j \in 1..Len(pr_nodes) :
          /\ k < j
          /\ \E x \in pr_pairs : \E y \in pr_pairs :
                x[2] = pr_nodes[k].number /\ y[2] = pr_nodes[j].number /\ TupleLess(y, x)

\* a cache file that is a JSON object with a non-empty "pairs" list and no "refs"
PairsOnly(file) ==
    file.kind = "object" /\ file.has_pairs /\ file.pairs # <<>> /\ ~file.has_refs

\* C9 as claimed: with a pairs-only cache file, resolve_pairs.main without
\* --refresh makes no remote call, and get_pairs_from_resolve hands the
\* driver exactly the pairs of the file
C9_PairsOnlyCacheAccepted ==
    PairsOnly(resolve_cache) =>
        /\ ~refresh => (rpc \notin {"src1", "src2", "src3", "merge"} /\ remote_calls = 0)
        /\ dpc = "extract_loop" => pairs = ApplyLimit(resolve_cache.pairs, limit)

(***************************************************************************)
(* Claims about the cache loaders and the reference sets                   *)
(***************************************************************************)
\* C11 as claimed: whatever malformed content the resolve cache or the extract
\* cache holds, every loader reports the cache as absent and none raises: a
\* resolver started on a malformed resolve cache goes on to fetch, the driver
\* that reads it does not die before the resolver has run, and build treats a
\* malformed extract cache as no cache
C11_MalformedCacheIsAbsent ==
    /\ (resolve_cache \in MalformedCacheSet /\ rpc # "idle") =>
          (rpc = "src1" \/ remote_calls > 0)
    /\ (resolve_cache \in MalformedCacheSet /\ dpc = "crashed") =>
          (rpc = "crashed" /\ remote_calls > 0)
    /\ extract_cache \in {ExtractCacheNotJson, ExtractCacheNotUtf8, ExtractCacheNoList} =>
          dpc \notin {"build_loop", "crashed"}

RefsIssueIds == {resolve_cache.refs.issue_ids[k] : k \in 1..Len(resolve_cache.refs.issue_ids)}
RefsPrIds == {resolve_cache.refs.pr_ids[k] : k \in 1..Len(resolve_cache.refs.pr_ids)}

\* C12 as claimed: in the reference sets the resolver wrote, no number is in
\* both refs.issue_ids and refs.pr_ids
C12_RefsDisjoint ==
    ResolverWrote => RefsIssueIds \cap RefsPrIds = {}

(***************************************************************************)
(* Claims about the state extractor                                        *)
(***************************************************************************)
\* the merge commit of the pull request the last run_extract was given
LastMerge == remote.pulls[extract_log[Len(extract_log)][2]].merge_commit_sha

\* c is the nearest common ancestor of a and b: an ancestor of both that
\* every other common ancestor is an ancestor of
NearestCommonAncestor(c, a, b) ==
    /\ c \in Ancestors(a) \cap Ancestors(b)
    /\ \A d \in Ancestors(a) \cap Ancestors(b) : d \in Ancestors(c)

\* C13: after a successful extraction of a pull request with merge commit M,
\* the reported base is the nearest common ancestor of M's two parents when M
\* has two parents, and M's parent when it has one
C13_BaseCommit ==
    extract_data.ok =>
        IF Len(Parents(LastMerge)) = 2
        THEN NearestCommonAncestor(extract_data.data.root_hash,
                                   Parents(LastMerge)[1], Parents(LastMerge)[2])
        ELSE /\ Len(Parents(LastMerge)) = 1
             /\ extract_data.data.root_hash = Parents(LastMerge)[1]

\* C13 case: a true merge (base Root, neither parent) and then a squash
\* commit (base its only parent, Merge1) were extracted
C13_Witness ==
    /\ extract_data.ok
    /\ BranchName(Root[1], "base") \in DOMAIN branches
    /\ branches[BranchName(Root[1], "base")] = Root
    /\ BranchName(Root[1], "human") \in DOMAIN branches
    /\ branches[BranchName(Root[1], "human")] = Merge1
    /\ LastMerge = Squash1
    /\ extract_data.data.root_hash = Merge1

\* C14: after a successful extraction with base commit B and merge commit M,
\* the reported h is the first 8 characters of B, h-base is at B and h-human
\* is at M, in the working copy and in the reported branches
C14_SnapshotNames ==
    extract_data.ok =>
        LET B == extract_data.data.root_hash
            h == extract_data.data.h
        IN  /\ B = base_sha_of(LastMerge)
            /\ h = B[1]
            /\ {BranchName(h, "base"), BranchName(h, "human")} \subseteq DOMAIN branches
            /\ branches[BranchName(h, "base")] = B
            /\ branches[BranchName(h, "human")] = LastMerge
            /\ extract_data.data.branches =
                   [n \in {BranchName(h, "base"), BranchName(h, "human")} |->
                        IF n = BranchName(h, "base") THEN B ELSE LastMerge]

\* C14 case: the pull request merged by Merge1 was extracted into a working
\* copy that the extractor had to clone
C14_Witness ==
    /\ extract_data.ok
    /\ LastMerge = Merge1
    /\ extract_data.data.h = "aaaaaaaa"
    /\ DOMAIN branches = {BranchName("aaaaaaaa", "base"), BranchName("aaaaaaaa", "human")}
    /\ head = BranchName("aaaaaaaa", "base")

\* both snapshot names of pull request pr_id exist, at the commits the
\* extractor computes for it
SnapshotsExist(pr_id) ==
    /\ remote.pulls[pr_id].found
    /\ remote.pulls[pr_id].merge_commit_sha # NoSha
    /\ LET M == remote.pulls[pr_id].merge_commit_sha
           B == base_sha_of(M)
       IN  /\ {BranchName(B[1], "base"), BranchName(B[1], "human")} \subseteq DOMAIN branches
           /\ branches[BranchName(B[1], "base")] = B
           /\ branches[BranchName(B[1], "human")] = M

\* the extract loop runs the extractor for the pair it is at
ExtractorRuns ==
    /\ dpc = "extract_loop"
    /\ idx <= Len(pairs)
    /\ extract_log' = Append(extract_log, <<pairs[idx].issue_id, pairs[idx].pr_id>>)

\* C15 as claimed: when the extractor runs for a pair whose h-base and h-human
\* already exist at the same commits, creating the snapshots is no error and
\* both names stay where they are
C15_SnapshotCreationIdempotent ==
    [][(ExtractorRuns /\ SnapshotsExist(pairs[idx].pr_id)) =>
           (/\ extract_data'.err # "cmd failed: git branch"
            /\ branches' = branches)]_vars

\* C16: when the extractor runs for a pair whose pull request has no merge
\* commit identifier, it ends in an error and leaves working copy and snapshot
\* names as they are; the driver records the pair as failed, adds no entry
\* and stays in the loop, at the next pair; no extract cache entry is ever
\* written for such a pair
C16_NotMergedIsSkipped ==
    /\ [][(/\ ExtractorRuns
           /\ remote.pulls[pairs[idx].pr_id].found
           /\ remote.pulls[pairs[idx].pr_id].merge_commit_sha = NoSha) =>
              (/\ ~extract_data'.ok
               /\ <<work_dir, branches, head>>' = <<work_dir, branches, head>>
               /\ failed' = Append(failed, [issue_id |-> pairs[idx].issue_id,
                                            pr_id |-> pairs[idx].pr_id,
                                            err |-> extract_data'.err])
               /\ extract_entries' = extract_entries
               /\ extract_cache' = extract_cache
               /\ dpc' = "extract_loop"
               /\ idx' = idx + 1)]_vars
    /\ [](\A k \in 1..Len(extract_cache.entries) :
              remote.pulls[extract_cache.entries[k].pr_id].merge_commit_sha # NoSha)

\* C16 case: without a working copy, the pair of an unmerged pull request
\* failed, nothing was cloned, and the loop is at the next pair
C16_Witness ==
    /\ dpc = "extract_loop"
    /\ idx = 2
    /\ Len(pairs) = 2
    /\ Len(failed) = 1
    /\ failed[1].err = "no merge_commit_sha"
    /\ ~work_dir
    /\ branches = <<>>

(***************************************************************************)
(* Claims about the extract cache and the dataset                          *)
(***************************************************************************)
\* C17 as claimed: every entry of the extract cache the driver wrote holds
\* the base commit the extractor computed for the pair and the merge commit
C17_EntriesHoldBase ==
    \A k \in 1..Len(extract_cache.entries) :
        LET e == extract_cache.entries[k]
            M == remote.pulls[e.pr_id].merge_commit_sha
        IN  /\ e.base_hash # NoSha
            /\ e.merge_hash # NoSha
            /\ e.base_hash = base_sha_of(M)
            /\ e.merge_hash = M

\* C18 as claimed: when build has run to its end over the extract cache that
\* extract wrote (one entry per successfully extracted pair) and the working
\* copy exists, the dataset holds exactly one row per entry (at least one),
\* in order
C18_OneRowPerPair ==
    (cmd = "build" /\ dpc = "done" /\ limit = NoLimit /\ work_dir
        /\ extract_cache.kind = "list" /\ extract_cache.entries # <<>>) =>
        /\ dataset.exists
        /\ Len(dataset.rows) = Len(extract_cache.entries)
        /\ \A k \in 1..Len(dataset.rows) :
              /\ dataset.rows[k].issue_id = extract_cache.entries[k].issue_id
              /\ dataset.rows[k].pr_id = extract_cache.entries[k].pr_id

\* the extract cache holds an entry for the pair p
InExtractCache(p) ==
    \E k \in 1..Len(extract_cache.entries) :
        /\ extract_cache.entries[k].issue_id = p.issue_id
        /\ extract_cache.entries[k].pr_id = p.pr_id

\* C19 as claimed: the extract loop does not run the extractor for a pair
\* that has an entry in the extract cache, and an entry of the cache is still
\* in the cache when the run has rewritten it
C19_ResumeSkipsCachedPair ==
    [][/\ (dpc = "extract_loop" /\ idx <= Len(pairs) /\ idx' = idx + 1
              /\ InExtractCache(pairs[idx])) =>
              (extract_log' = extract_log /\ branches' = branches)
       /\ (dpc = "extract_loop" /\ dpc' = "done") =>
              \A k \in 1..Len(extract_cache.entries) :
                  \E j \in 1..Len(extract_cache'.entries) :
                      extract_cache'.entries[j] = extract_cache.entries[k]]_vars

\* C20 as claimed: while an extract run is under way, every pair it has
\* extracted successfully has its entry in the extract cache on disk
C20_CacheSavedAfterEveryPair ==
    dpc = "extract_loop" =>
        \A k \in 1..Len(extract_entries) :
            \E j \in 1..Len(extract_cache.entries) :
                extract_cache.entries[j] = extract_entries[k]
(***************************************************************************)
(* Claims about the extract cache, the agent stage and the dataset         *)
(***************************************************************************)
PairKeys(es) == {<<es[k].issue_id, es[k].pr_id>> : k \in 1..Len(es)}

\* C21 as claimed: whenever an extract run (extract or the extract phase of
\* all) writes the extract cache, every pair that had an entry in the file
\* before still has one
C21_ExtractKeepsCacheEntries ==
    [][(cmd' \in {"extract", "all"} /\ extract_cache' # extract_cache) =>
           PairKeys(extract_cache.entries) \subseteq PairKeys(extract_cache'.entries)]_vars
\* C22 as claimed: in a run of the agent runner whose plain invocation exited
\* non-zero the creative invocation was made as well, on the creative
\* snapshot of the same pair; and when the creative invocation exited
\* non-zero the plain snapshot still holds what the plain invocation left
C22_InvocationsIndependent ==
    /\ (Len(agent_log) >= 1 /\ agent_log[1].returncode # 0) =>
           /\ Len(agent_log) = 2
           /\ agent_log[2].branch = BranchName(agent_log[1].branch[1], "cursor-creative")
    /\ (Len(agent_log) = 2 /\ agent_log[2].returncode # 0) =>
           Content(agent_commits, branches[agent_log[1].branch]) = agent_log[1].content
\* an apply-cursor iteration in which the external agent exited non-zero
AgentFailedStep ==
    dpc = "apply_loop" /\ attempts' = attempts + 1 /\ agent_err' = "agent"

\* C23: when the agent exits non-zero for a pair of apply-cursor, that was
\* its only invocation on that snapshot and the last of the run; the loop
\* goes on to the next pair with the list of pairs to process as it was and
\* the command neither ends nor changes its status; the pair's base and
\* human snapshots point where they did and no cache entry in memory is
\* changed.  The loop is left only after the last pair, and the file the
\* command then writes has the base and merge identifiers of every entry
\* as they were
C23_AgentFailureSkipsPair ==
    [][/\ AgentFailedStep =>
              LET entry == to_apply[idx]
                  h == entry.base_hash[1]
                  last == agent_log'[Len(agent_log')]
              IN  /\ last.returncode # 0
                  /\ \A j, k \in 1..Len(agent_log') :
                         agent_log'[j].branch = agent_log'[k].branch => j = k
                  /\ dpc' = "apply_loop"
                  /\ idx' = idx + 1
                  /\ to_apply' = to_apply
                  /\ exit_status' = exit_status
                  /\ agent_failed' = Append(agent_failed, <<entry.issue_id, entry.pr_id>>)
                  /\ branches'[BranchName(h, "base")] = branches[BranchName(h, "base")]
                  /\ branches'[BranchName(h, "human")] = branches[BranchName(h, "human")]
                  /\ loaded_cache' = loaded_cache
       /\ (dpc = "apply_loop" /\ dpc' # "apply_loop") =>
              /\ dpc' = "done"
              /\ idx > Len(to_apply)
              /\ Len(extract_cache'.entries) = Len(extract_cache.entries)
              /\ \A k \in 1..Len(extract_cache.entries) :
                     /\ extract_cache'.entries[k].base_hash = extract_cache.entries[k].base_hash
                     /\ extract_cache'.entries[k].merge_hash
                            = extract_cache.entries[k].merge_hash]_vars

\* the agent failed for the first of two pairs, the second pair was processed
\* all the same: it got its two agent snapshots, whose commits stand in its
\* cache entry and so in the second element of the list; the command has
\* ended
C23_Witness ==
    /\ cmd = "apply-cursor" /\ dpc = "done"
    /\ Len(to_apply) = 2
    /\ agent_failed = <<<<to_apply[1].issue_id, to_apply[1].pr_id>>>>
    /\ agent_err = ""
    /\ Len(agent_log) = 2
    /\ BranchName(to_apply[1].base_hash[1], "human") \in DOMAIN branches
    /\ BranchName(to_apply[1].base_hash[1], "cursor") \notin DOMAIN to_apply[1].branches
    /\ BranchName(to_apply[2].base_hash[1], "cursor") \in DOMAIN to_apply[2].branches
    /\ to_apply[2] = extract_cache.entries[2]
\* C24: for every invocation of the last runner run in which the agent
\* exited with status zero, the content of the tip of the snapshot it ran on
\* is the content the working copy had when the agent ended
C24_TipIsWorkingCopy ==
    \A k \in 1..Len(agent_log) :
        agent_log[k].returncode = 0 =>
            Content(agent_commits, branches[agent_log[k].branch]) = agent_log[k].content

\* both invocations exited zero; the plain one edited files and was
\* committed, the creative one changed nothing and its snapshot is at base
C24_Witness ==
    /\ Len(agent_log) = 2
    /\ agent_log[1].returncode = 0 /\ agent_log[2].returncode = 0
    /\ branches[agent_log[1].branch] \in DOMAIN agent_commits
    /\ agent_log[1].content.edits # {}
    /\ branches[agent_log[2].branch] \notin DOMAIN agent_commits
    /\ agent_log[2].content.edits = {}
\* a run of the agent runner for snapshots that exist already
RerunStep ==
    /\ attempts' = attempts + 1
    /\ work_dir
    /\ BranchName(agent_h', "base") \in DOMAIN branches
    /\ BranchName(agent_h', "cursor") \in DOMAIN branches
    /\ BranchName(agent_h', "cursor-creative") \in DOMAIN branches

\* C25 as claimed: a run of the agent runner for a pair whose agent snapshots
\* exist gets through both resets, and afterwards the tip of each agent
\* snapshot is base or a commit this run made on base
C25_RerunResetsSnapshots ==
    [][RerunStep =>
           /\ agent_err' # "git branch"
           /\ \A v \in AgentVariants :
                  LET tip == branches'[BranchName(agent_h', v)]
                      base == branches[BranchName(agent_h', "base")]
                  IN  \/ tip = base
                      \/ /\ tip = AgentCommitId(attempts', v)
                         /\ agent_commits'[tip].parent = base]_vars
\* C26: in every step, every snapshot name h-base or h-human that exists
\* still exists afterwards and points at the same commit
C26_BaseAndHumanNeverMove ==
    [][\A n \in DOMAIN branches :
           n[2] \in {"base", "human"} =>
               n \in DOMAIN branches' /\ branches'[n] = branches[n]]_vars

\* after an agent run that committed, the extraction of another pair and a
\* dataset build that wrote a row, the first pair's base and human snapshots
\* are where extract.py put them
C26_Witness ==
    /\ agent_commits # <<>>
    /\ BranchName(Merge1[1], "base") \in DOMAIN branches
    /\ dataset.rows # <<>>
    /\ branches[BranchName(Root[1], "base")] = Root
    /\ branches[BranchName(Root[1], "human")] = Merge1
\* the start of an apply-cursor command that finds both groups non-empty
GateStep ==
    /\ DriverStopped
    /\ cmd' = "apply-cursor" /\ attempts' = attempts /\ idx' = 1
    /\ has_cursor(load_extract_cache(extract_cache).entries, work_dir, branches) # <<>>
    /\ no_cursor(load_extract_cache(extract_cache).entries, work_dir, branches) # <<>>

\* the operator typed y: one letter y (121) or Y (89), and nothing but white
\* space before and after it
AnsweredYes(typed) ==
    /\ typed.asked
    /\ ~typed.eof
    /\ \E k \in 1..Len(typed.text) :
          /\ typed.text[k] \in {121, 89}
          /\ \A j \in 1..Len(typed.text) : j # k => typed.text[j] \in Whitespace

\* C27: when both groups are non-empty the operator is asked; the command
\* enters the loop that invokes the agent only on the answer y, and on every
\* other answer or the end of input it ends with status 0, the extract
\* cache, the snapshots and the working copy as they were; and no agent is
\* invoked by an apply-cursor command whose prompt was answered otherwise
C27_ConfirmationGate ==
    [][/\ GateStep =>
              /\ stdin'.asked
              /\ IF AnsweredYes(stdin')
                 THEN dpc' = "apply_loop"
                 ELSE /\ dpc' = "done" /\ exit_status' = 0 /\ to_apply' = <<>>
                      /\ UNCHANGED <<extract_cache, gvars, wvars, dataset>>
       /\ (dpc = "apply_loop" /\ attempts' # attempts) =>
              (~stdin.asked \/ AnsweredYes(stdin))]_vars

\* the prompt was shown and answered by y and a zero-width space, which is
\* not y: no agent ran
C27_Witness ==
    /\ cmd = "apply-cursor" /\ dpc = "done"
    /\ stdin.asked /\ ~AnsweredYes(stdin)
    /\ stdin.text = <<121, 8203>>
    /\ reply = <<121, 8203>>
    /\ to_apply = <<>>
    /\ has_cursor(extract_cache.entries, work_dir, branches) # <<>>
    /\ no_cursor(extract_cache.entries, work_dir, branches) # <<>>
\* two commits hold the same files: they are one commit, or an agent commit
\* and its parent when the agent commit has no edits
SameContent(a, b) ==
    LET EditsOf(c) == IF c \in DOMAIN agent_commits THEN agent_commits[c].edits ELSE {}
        UpstreamOf(c) == IF c \in DOMAIN agent_commits THEN agent_commits[c].parent ELSE c
    IN  UpstreamOf(a) = UpstreamOf(b) /\ EditsOf(a) = EditsOf(b)

DiffField(row, role) ==
    IF role = "human" THEN row.pr_diff
    ELSE IF role = "cursor" THEN row.cursor_diff
    ELSE row.cursor_creative_diff

\* C28: with the working copy in place, build_one_row returns a row for
\* every pair of non-empty identifiers, whatever snapshots exist and whether
\* or not the texts can be fetched; each diff is empty when its own snapshot
\* is missing and is otherwise the difference between the base and that
\* snapshot (empty when the two agree), each text is empty when its own
\* fetch fails
C28_RowAlwaysBuilt ==
    work_dir =>
        \A base_hash, human_hash \in Commits, issue_fail, pr_fail \in BOOLEAN :
            LET res == build_one_row(work_dir, branches, 1, 100, base_hash, human_hash,
                                     issue_fail, pr_fail)
            IN  /\ res.ok
                /\ issue_fail => res.row.issue_text = <<>>
                /\ pr_fail => res.row.pr_text = <<>>
                /\ ~issue_fail => res.row.issue_text # <<>>
                /\ \A role \in {"human", "cursor", "cursor-creative"} :
                       IF BranchName(base_hash[1], role) \notin DOMAIN branches
                       THEN DiffField(res.row, role) = <<>>
                       ELSE IF SameContent(base_hash, branches[BranchName(base_hash[1], role)])
                       THEN DiffField(res.row, role) = <<>>
                       ELSE DiffField(res.row, role)
                                = <<base_hash, branches[BranchName(base_hash[1], role)]>>

\* build wrote a row although no agent snapshot exists and neither text
\* could be fetched: only the human diff is filled
C28_Witness ==
    /\ dataset.rows # <<>>
    /\ dataset.rows[1].pr_diff # <<>>
    /\ dataset.rows[1].cursor_diff = <<>>
    /\ dataset.rows[1].cursor_creative_diff = <<>>
    /\ dataset.rows[1].issue_text = <<>>
    /\ dataset.rows[1].pr_text = <<>>
    /\ BranchName(dataset.rows[1].base_hash[1], "cursor") \notin DOMAIN branches
\* two rows that differ at most in the two agent diff fields
SameButAgentDiffs(old, new) ==
    /\ new.issue_id = old.issue_id /\ new.pr_id = old.pr_id
    /\ new.issue_text = old.issue_text /\ new.pr_text = old.pr_text
    /\ new.base_hash = old.base_hash /\ new.human_hash = old.human_hash
    /\ new.pr_diff = old.pr_diff

\* C29 as claimed: when a build run ends, every row the dataset held before
\* the run is still in it, changed at most in cursor_diff and
\* cursor_creative_diff
C29_DatasetAppendOnly ==
    [][(dpc = "build_loop" /\ dpc' = "done") =>
           \A k \in 1..Len(dataset_before.rows) :
               \E j \in 1..Len(dataset'.rows) :
                   SameButAgentDiffs(dataset_before.rows[k], dataset'.rows[j])]_vars
\* a batch command has ended after its loop went over at least one pair
BatchEnded ==
    /\ dpc = "done"
    /\ cmd \in {"extract", "build", "all", "apply-cursor"}
    /\ idx > 1

\* a pair failed in the run: its extraction or its row (failed), or its
\* agent step (agent_failed)
PairFailed == failed # <<>> \/ agent_failed # <<>>

\* C30 as claimed: when a batch command has ended, its exit status is
\* non-zero if a pair failed in the run and zero if none did
C30_ExitStatusTellsFailure ==
    BatchEnded => (exit_status # 0 <=> PairFailed)

(***************************************************************************)
(* Claims about the batch as a whole, the agent stage's bookkeeping and    *)
(* the pair set                                                            *)
(***************************************************************************)
IdPairs(rs) == {<<rs[k].issue_id, rs[k].pr_id>> : k \in 1..Len(rs)}

\* the list a batch command goes over, and how many of its pairs do not
\* reach the build loop (those that all could not extract)
BatchList == IF cmd = "build" THEN entries ELSE pairs
LostBeforeBuild == IF cmd = "all" THEN Len(pairs) - Len(entries) ELSE 0

\* the loops of the batch commands
InBatchLoop(pc) == pc \in {"extract_loop", "build_loop"}

\* C31: in extract, build and all the loop goes over every pair of its list
\* whatever happened to the earlier ones: no step of a loop ends the command
\* with a traceback, a loop is left only after its last pair, and every pair
\* the loop has passed is either in the result (the extracted entries, the
\* dataset rows) or in the failure list, there with its identifiers and a
\* reason
C31_FailureNeverAbortsBatch ==
    /\ [][InBatchLoop(dpc) =>
              /\ dpc' # "crashed"
              /\ dpc' # dpc => idx > Len(IF dpc = "extract_loop" THEN pairs ELSE entries)]_vars
    /\ [](/\ \A k \in 1..Len(failed) : failed[k].err # ""
          /\ dpc = "extract_loop" =>
                /\ Len(extract_entries) + Len(failed) = idx - 1
                /\ \A k \in 1..(idx - 1) :
                      <<pairs[k].issue_id, pairs[k].pr_id>>
                          \in IdPairs(extract_entries) \cup IdPairs(failed)
          /\ dpc = "build_loop" =>
                /\ Len(dataset.rows) + Len(failed) = LostBeforeBuild + idx - 1
                /\ \A k \in 1..(idx - 1) :
                      <<entries[k].issue_id, entries[k].pr_id>>
                          \in IdPairs(dataset.rows) \cup IdPairs(failed)
          /\ (dpc = "done" /\ cmd \in {"extract", "build", "all"} /\ BatchList # <<>>) =>
                /\ idx > Len(IF cmd = "extract" THEN pairs ELSE entries)
                /\ Len(IF cmd = "extract" THEN extract_entries ELSE dataset.rows)
                      + Len(failed) = Len(BatchList)
                /\ \A k \in 1..Len(BatchList) :
                      <<BatchList[k].issue_id, BatchList[k].pr_id>>
                          \in IdPairs(IF cmd = "extract" THEN extract_entries
                                      ELSE dataset.rows)
                                  \cup IdPairs(failed))

\* C31 case: pairs.json was missing, so all ran the resolver first, and went
\* over two pairs; the first failed in extraction, the second was extracted
\* all the same and then lacked its hashes when its row was to be assembled;
\* both are in the failure list
C31_Witness ==
    /\ dpc = "done"
    /\ cmd = "all"
    /\ caller = "all" /\ rpc = "done" /\ remote_calls > 0
    /\ Len(pairs) = 2
    /\ Len(failed) = 2
    /\ <<failed[1].issue_id, failed[1].pr_id>> = <<pairs[1].issue_id, pairs[1].pr_id>>
    /\ failed[1].err # "missing hashes"
    /\ <<failed[2].issue_id, failed[2].pr_id>> = <<pairs[2].issue_id, pairs[2].pr_id>>
    /\ failed[2].err = "missing hashes"

\* C32 as claimed: the partition of apply-cursor (EntryHasCursor) takes a
\* pair for processed only if an agent run for it went through both
\* invocations (stated for the time when one run was made, so that no
\* earlier run can account for it), and takes the pair of the last run for
\* not processed when that run failed
C32_FailedPairIsNotProcessed ==
    \A k \in 1..Len(extract_cache.entries) :
        LET entry == extract_cache.entries[k]
        IN  ~EntrySkipped(entry) =>
               /\ (attempts = 1 /\ EntryHasCursor(entry, work_dir, branches)) =>
                      (agent_h = entry.base_hash[1] /\ agent_err = "")
               /\ (attempts >= 1 /\ agent_h = entry.base_hash[1] /\ agent_err # "") =>
                      ~EntryHasCursor(entry, work_dir, branches)

\* C33 as claimed: the commit an agent invocation makes on its snapshot
\* holds, on top of the base commit, the edits of that invocation and no
\* others
C33_SnapshotHoldsOwnEditsOnly ==
    \A att \in 1..attempts, variant \in AgentVariants :
        AgentCommitId(att, variant) \in DOMAIN agent_commits =>
            Content(agent_commits, AgentCommitId(att, variant)).edits
                \subseteq {<<att, variant>>}

\* the pair the extract loop has just gone over was refused by git because
\* its snapshot names were taken
NamesTaken ==
    /\ dpc = "extract_loop"
    /\ idx > 1
    /\ pairs[idx - 1].issue_id # None /\ pairs[idx - 1].pr_id # None
    /\ ~extract_data.ok
    /\ extract_data.err = "cmd failed: git branch"

\* C34 as claimed: in one extract run no pair is refused because of the
\* snapshots an earlier pair of the same run has made, be it a pair of the
\* same pull request or one whose base commit begins with the same 8
\* characters; and the names reported for the extracted pairs stand for
\* the commits reported
C34_PairsExtractIndependently ==
    /\ NamesTaken =>
          LET h == base_sha_of(remote.pulls[pairs[idx - 1].pr_id].merge_commit_sha)[1]
          IN  \A k \in 1..Len(extract_entries) :
                  BranchName(h, "base") \notin DOMAIN extract_entries[k].branches
    /\ dpc = "extract_loop" =>
          \A k \in 1..Len(extract_entries) : \A n \in DOMAIN extract_entries[k].branches :
              n \in DOMAIN branches /\ branches[n] = extract_entries[k].branches[n]

\* the pull requests of the pair list the resolver wrote
WrittenPrIds == {x[2] : x \in WrittenPairs}

\* the issues the two sources credit pull request p with: those linked in
\* its node, and the closed issues whose closing event names p as merged
IssuesCredited(p) ==
    UNION {IntLinked(pr_nodes[k]) : k \in {j \in 1..Len(pr_nodes) : pr_nodes[j].number = p}}
        \cup {issue_nodes[k].number :
                 k \in {j \in 1..Len(issue_nodes) :
                           /\ IsInt(issue_nodes[j].number)
                           /\ \E e \in 1..Len(issue_nodes[j].events) :
                                  /\ issue_nodes[j].events[e].number = p
                                  /\ issue_nodes[j].events[e].merged}}

\* p has linked issues, and every pair either source gives it is implausible
OnlyImplausible(p) ==
    /\ \E k \in 1..Len(pr_nodes) : pr_nodes[k].number = p /\ IntLinked(pr_nodes[k]) # {}
    /\ \A i \in IssuesCredited(p) : Implausible(<<i, p>>)

\* C35 as claimed: every merged pull request with an integer number is the
\* pr_id of a pair of the list the resolver wrote
C35_AsClaimed ==
    ResolvedNow =>
        \A k \in 1..Len(pr_nodes) :
            IsInt(pr_nodes[k].number) => pr_nodes[k].number \in WrittenPrIds

\* C35: a merged pull request with an integer number is the pr_id of a pair
\* of the list the resolver wrote, unless it has linked issues and every pair
\* the sources give it is implausible; in that case it is in no pair
C35_MergedPrHasPair ==
    ResolvedNow =>
        \A k \in 1..Len(pr_nodes) :
            IsInt(pr_nodes[k].number) =>
                (pr_nodes[k].number \in WrittenPrIds <=> ~OnlyImplausible(pr_nodes[k].number))

\* C35 case: two merged pull requests; one is left without a pair by the
\* filter, the other is written with the issue it closes
C35_Witness ==
    /\ ResolvedNow
    /\ \E k, j \in 1..Len(pr_nodes) :
          /\ IsInt(pr_nodes[k].number) /\ IsInt(pr_nodes[j].number)
          /\ OnlyImplausible(pr_nodes[k].number)
          /\ pr_nodes[k].number \notin WrittenPrIds
          /\ \E x \in WrittenPairs : x[2] = pr_nodes[j].number /\ x[1] # x[2]

\* apply-cursor ends in this step: after its loop, or before it (nothing to
\* do, or the operator declined)
ApplyCursorEnds ==
    /\ cmd' = "apply-cursor"
    /\ dpc' = "done"
    /\ attempts' = attempts

\* the pairs of this apply-cursor run whose agent run succeeded
AgentSucceeded ==
    {<<to_apply'[k].issue_id, to_apply'[k].pr_id>> : k \in 1..Len(to_apply')}
        \ {agent_failed'[k] : k \in 1..Len(agent_failed')}

\* C36 as claimed: when apply-cursor ends, the extract cache has the entries
\* it had, in their order; the entry of a pair whose agent run succeeded has
\* in its branches the commits that h-cursor and h-cursor-creative are at and
\* is otherwise as it was, and every other entry is as it was
C36_CacheAfterApplyCursor ==
    [][ApplyCursorEnds =>
          /\ Len(extract_cache'.entries) = Len(extract_cache.entries)
          /\ \A k \in 1..Len(extract_cache.entries) :
                LET old == extract_cache.entries[k]
                    new == extract_cache'.entries[k]
                    h == old.base_hash[1]
                IN  IF <<old.issue_id, old.pr_id>> \in AgentSucceeded
                    THEN /\ "branches" \in DOMAIN new
                         /\ BranchName(h, "cursor") \in DOMAIN new.branches
                         /\ BranchName(h, "cursor-creative") \in DOMAIN new.branches
                         /\ new.branches[BranchName(h, "cursor")]
                                = branches'[BranchName(h, "cursor")]
                         /\ new.branches[BranchName(h, "cursor-creative")]
                                = branches'[BranchName(h, "cursor-creative")]
                         /\ \A f \in DOMAIN old \ {"branches"} : new[f] = old[f]
                         /\ \A n \in DOMAIN BranchesOf(old) :
                                n[2] \in {"base", "human"} => new.branches[n] = old.branches[n]
                    ELSE new = old]_vars
====
